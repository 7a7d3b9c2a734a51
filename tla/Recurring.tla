----------------------------- MODULE Recurring -----------------------------
(***************************************************************************)
(* What the program posts by itself: transaction templates                 *)
(* (handlers/templates.rs, jobs/template_run.rs), recurring invoices       *)
(* (jobs/recurring_invoices.rs), recurring journals                        *)
(* (handlers/recurring_journals.rs) and amortization schedules             *)
(* (handlers/amortization.rs, workers/amortization.rs).                    *)
(***************************************************************************)
EXTENDS Requests, Calendar, Sequences

CONSTANTS
    Tmpl,           \* ids of templates, journals and schedules
    Frequencies,    \* frequencies users choose
    StartDates,     \* dates users enter
    EndDates,       \* last dates of recurring journals
    Days,           \* the days on which the model looks at the clock
    MaxEntries,     \* bound: entries of one kind for one occurrence
    MaxPeriods,     \* periods of an amortization schedule
    Caps            \* occurrence caps of recurring journals

ASSUME RecurringAssumption ==
    /\ IsFiniteSet(Req)
    /\ Frequencies \subseteq Frequency
    /\ StartDates \cup Days \subseteq {d \in Nat : IsDate(d)}
    /\ MaxEntries \in Nat /\ MaxPeriods \in Nat

VARIABLES
    today,
    tmpl,           \* transaction_templates
    auto,           \* transactions with a template_id: pairs <<template, date>>
    manual,         \* history: entries of run and process_due, per template and date
    invTmpl,        \* recurring_invoice_templates
    issued,         \* invoices with a recurring_template_id: pairs
    scanned,        \* history: the day of the last complete invoice scan
    journal,        \* recurring_journal_templates
    run,            \* recurring_journal_runs: function of <<template, period>>
    stray,          \* drafts made for a period that no run row names (yet)
    sched,          \* amortization_schedules
    recorded,       \* amortization_posted_periods: pairs <<schedule, period>>
    entries,        \* history: the dates amortization posted a period on
    unrecorded      \* history: rows whose request was cut off, or did not clean up

tmplVars == <<tmpl, auto, manual>>
invTmplVars == <<invTmpl, issued, scanned>>
journalVars == <<journal, run, stray>>
schedVars == <<sched, recorded, entries>>
recVars == <<today, tmplVars, invTmplVars, journalVars, schedVars, unrecorded>>

NoTmpl == [next |-> 0]
Deleted == [next |-> -1]
Live(table) == {t \in Tmpl : table[t] \notin {NoTmpl, Deleted}}

(* Every occurrence the model can meet: the first one, and as far as one   *)
(* step beyond the day.                                                    *)
AllDates ==
    StartDates \cup UNION {Occurrences(s, f, AdvanceFrequency(d, f) + 1) :
                             s \in StartDates, f \in Frequencies, d \in Days}

NoRun == [status |-> "none", has |-> "none"]

InitRecurring ==
    /\ today \in Days
    /\ tmpl = [t \in Tmpl |-> NoTmpl]
    /\ auto = {}
    /\ manual = [o \in Tmpl \X AllDates |-> 0]
    /\ invTmpl = [t \in Tmpl |-> NoTmpl]
    /\ issued = {}
    /\ scanned = 0
    /\ journal = [t \in Tmpl |-> NoTmpl]
    /\ run = [o \in Tmpl \X AllDates |-> NoRun]
    /\ stray = [o \in Tmpl \X AllDates |-> 0]
    /\ sched = [t \in Tmpl |-> NoTmpl]
    /\ recorded = {}
    /\ entries = [o \in Tmpl \X (1..MaxPeriods) |-> <<>>]
    /\ unrecorded = {}

(* The clock moves to a later day. *)
NextDay ==
    /\ \E d \in Days : d > today /\ today' = d
    /\ UNCHANGED <<reqVars, tmplVars, invTmplVars, journalVars, schedVars, unrecorded>>

-----------------------------------------------------------------------------
(* Transaction templates.  sound says that the postings can be inserted:   *)
(* create asks for two lines, not that they balance.                       *)
TemplateCreate(r, t) ==
    /\ tmpl[t] = NoTmpl
    /\ \E f \in Frequencies, d \in StartDates, sound \in BOOLEAN :
         tmpl' = [tmpl EXCEPT ![t] = [start |-> d, next |-> d, freq |-> f,
                                      active |-> TRUE, sound |-> sound]]
    /\ Serve(r, t)
    /\ UNCHANGED <<today, auto, manual, invTmplVars, journalVars, schedVars, unrecorded>>

(* create_recognition_template, of both its forms: two legs that balance.  *)
(* The number of periods goes into the description only.                   *)
RecognitionCreate(r, t) ==
    /\ tmpl[t] = NoTmpl
    /\ \E f \in Frequencies \cap {"monthly", "quarterly", "yearly"}, d \in StartDates :
         tmpl' = [tmpl EXCEPT ![t] = [start |-> d, next |-> d, freq |-> f,
                                      active |-> TRUE, sound |-> TRUE]]
    /\ Serve(r, t)
    /\ UNCHANGED <<today, auto, manual, invTmplVars, journalVars, schedVars, unrecorded>>

TemplateToggle(r, t) ==
    /\ t \in Live(tmpl)
    /\ tmpl' = [tmpl EXCEPT ![t].active = ~@]
    /\ Serve(r, t)
    /\ UNCHANGED <<today, auto, manual, invTmplVars, journalVars, schedVars, unrecorded>>

(* ON DELETE SET NULL: its entries keep no template_id. *)
TemplateDelete(r, t) ==
    /\ t \in Live(tmpl)
    /\ tmpl' = [tmpl EXCEPT ![t] = Deleted]
    /\ auto' = {o \in auto : o[1] # t}
    /\ Serve(r, t)
    /\ UNCHANGED <<today, manual, invTmplVars, journalVars, schedVars, unrecorded>>

(* run and process_due read the template, and run_template posts its next  *)
(* date without template_id.  Its UPDATE of next_date names the new        *)
(* transaction instead of the template and changes no row.                 *)
TemplateRunRead(r, t) ==
    /\ t \in Live(tmpl) /\ tmpl[t].active
    /\ manual[<<t, tmpl[t].next>>] < MaxEntries
    /\ Begin(r, "run_template", [on |-> t, at |-> tmpl[t].next, sound |-> tmpl[t].sound])
    /\ UNCHANGED recVars

RunTemplate(r) ==
    /\ pc[r] = "run_template"
    /\ LET d == loc[r]
       IN  manual' = IF d.sound THEN [manual EXCEPT ![<<d.on, d.at>>] = @ + 1] ELSE manual
    /\ End(r)
    /\ UNCHANGED <<today, tmpl, auto, invTmplVars, journalVars, schedVars, unrecorded>>

(* scan_and_run: every active template that is due, each from its          *)
(* next_date on until today.                                               *)
TemplateScan(r) ==
    /\ Begin(r, "occurrence",
             [on |-> "template_scan", day |-> today, at |-> 0,
              todo |-> {<<t, tmpl[t].next>> :
                          t \in {t \in Live(tmpl) : tmpl[t].active /\ tmpl[t].next <= today}}])
    /\ UNCHANGED recVars

(* The template the scan is at, with its cursor, or the next one of the    *)
(* list: a template whose postings fail ends the whole scan.               *)
ScanPick(r) ==
    /\ pc[r] = "occurrence" /\ loc[r].at = 0
    /\ \/ loc[r].todo = {} /\ End(r)
       \/ \E o \in loc[r].todo :
            Goto(r, "occurrence", [on |-> o[1], day |-> loc[r].day, at |-> o[2],
                                   todo |-> loc[r].todo \ {o}])
    /\ UNCHANGED recVars

Postable(t) == IF t \in Live(tmpl) THEN tmpl[t].sound ELSE FALSE

(* run_occurrence: the entry, if the unique index lets it in, and the      *)
(* template's next date in one transaction.  A date already posted ends    *)
(* the catching up of this template.                                       *)
RunOccurrence(r) ==
    /\ pc[r] = "occurrence" /\ loc[r].at # 0
    /\ LET t == loc[r].on
           at == loc[r].at
           next == AdvanceFrequency(at, tmpl[t].freq)
       IN  \/ /\ ~Postable(t)
              /\ End(r) /\ UNCHANGED <<tmpl, auto>>
           \/ /\ Postable(t) /\ <<t, at>> \in auto
              /\ Goto(r, "occurrence", [loc[r] EXCEPT !.at = 0])
              /\ UNCHANGED <<tmpl, auto>>
           \/ /\ Postable(t) /\ <<t, at>> \notin auto
              /\ auto' = auto \cup {<<t, at>>}
              /\ tmpl' = [tmpl EXCEPT ![t].next = next]
              /\ Goto(r, "occurrence",
                      [loc[r] EXCEPT !.at = IF next <= loc[r].day THEN next ELSE 0])
    /\ UNCHANGED <<today, manual, invTmplVars, journalVars, schedVars, unrecorded>>

(* A run or a scan that is cut off has left nothing half done. *)
ScanCutOff(r) ==
    /\ pc[r] \in {"run_template", "occurrence", "issue"}
    /\ CutOff(r)
    /\ UNCHANGED recVars

TemplatesNext ==
    \/ NextDay
    \/ \E r \in Req :
          \/ RunTemplate(r) \/ TemplateScan(r) \/ ScanPick(r) \/ RunOccurrence(r)
          \/ ScanCutOff(r)
          \/ \E t \in Tmpl : \/ TemplateCreate(r, t) \/ RecognitionCreate(r, t)
                             \/ TemplateToggle(r, t) \/ TemplateDelete(r, t)
                             \/ TemplateRunRead(r, t)

-----------------------------------------------------------------------------
(* Recurring invoices.  No handler makes or edits their templates; the     *)
(* scan never writes next_date back.                                       *)
InvoiceTemplateAppears(t) ==
    /\ t \notin Live(invTmpl)
    /\ \E f \in Frequencies, d \in StartDates :
         invTmpl' = [invTmpl EXCEPT ![t] = [next |-> d, freq |-> f]]
    /\ UNCHANGED <<today, reqVars, tmplVars, issued, scanned, journalVars, schedVars, unrecorded>>

InvoiceScan(r) ==
    /\ Begin(r, "issue", [on |-> "invoice_scan", day |-> today, at |-> 0,
             todo |-> {<<t, invTmpl[t].next>> :
                         t \in {t \in Live(invTmpl) : invTmpl[t].next <= today}}])
    /\ UNCHANGED recVars

InvoiceScanPick(r) ==
    /\ pc[r] = "issue" /\ loc[r].at = 0
    /\ \/ loc[r].todo = {} /\ End(r) /\ scanned' = loc[r].day
       \/ /\ \E o \in loc[r].todo :
               Goto(r, "issue", [on |-> o[1], day |-> loc[r].day, at |-> o[2],
                                 todo |-> loc[r].todo \ {o}])
          /\ UNCHANGED scanned
    /\ UNCHANGED <<today, tmplVars, invTmpl, issued, journalVars, schedVars, unrecorded>>

(* issue_occurrence: an occurrence that exists ends the catching up. *)
IssueOccurrence(r) ==
    /\ pc[r] = "issue" /\ loc[r].at # 0
    /\ LET o == <<loc[r].on, loc[r].at>>
           next == AdvanceFrequency(o[2], invTmpl[o[1]].freq)
       IN  \/ o \in issued /\ Goto(r, "issue", [loc[r] EXCEPT !.at = 0]) /\ UNCHANGED issued
           \/ /\ o \notin issued
              /\ issued' = issued \cup {o}
              /\ Goto(r, "issue", [loc[r] EXCEPT !.at = IF next <= loc[r].day THEN next ELSE 0])
    /\ UNCHANGED <<today, tmplVars, invTmpl, scanned, journalVars, schedVars, unrecorded>>

RecurringInvoicesNext ==
    \/ NextDay
    \/ \E t \in Tmpl : InvoiceTemplateAppears(t)
    \/ \E r \in Req :
          \/ InvoiceScan(r) \/ InvoiceScanPick(r) \/ IssueOccurrence(r)
          \/ ScanCutOff(r)

-----------------------------------------------------------------------------
(* Recurring journals.  A run is the row of one period of one template;    *)
(* its transaction is a draft until somebody posts it.                     *)
JournalCreate(r, t) ==
    /\ t \notin Live(journal)
    /\ \E f \in Frequencies \ {"biweekly"}, d \in StartDates, cap \in Caps,
         e \in EndDates \cup {0} :
         /\ e # 0 => e >= d
         /\ journal' = [journal EXCEPT ![t] = [start |-> d, next |-> d, freq |-> f,
                                            end |-> e, cap |-> cap, paused |-> FALSE]]
    /\ Serve(r, t)
    /\ UNCHANGED <<today, tmplVars, invTmplVars, run, stray, schedVars, unrecorded>>

SetPaused(r, t) ==
    /\ t \in Live(journal)
    /\ \E paused \in BOOLEAN : journal' = [journal EXCEPT ![t].paused = paused]
    /\ Serve(r, t)
    /\ UNCHANGED <<today, tmplVars, invTmplVars, run, stray, schedVars, unrecorded>>

(* preview: the date typed into its form, or else the next period. *)
PreviewBegin(r, t) ==
    /\ t \in Live(journal)
    /\ \E p \in {journal[t].next} \cup AllDates :
          Begin(r, "preview", [on |-> t, at |-> p, due |-> FALSE])
    /\ UNCHANGED recVars

RunsOf(t) == {o \in DOMAIN run : o[1] = t /\ run[o].status # "none"}

(* The loop of run_due stops after today and after the end date. *)
PeriodStep(t, period, day) ==
    IF period > day \/ (journal[t].end # 0 /\ period > journal[t].end)
    THEN "run_due_end" ELSE "preview"

(* run_due: templates that are due and not paused, one after the other     *)
(* (here, a request each); the cap is compared once, with the runs that    *)
(* were not skipped.                                                       *)
RunDueBegin(r, t) ==
    /\ t \in Live(journal) /\ ~journal[t].paused /\ journal[t].next <= today
    /\ \/ journal[t].cap = 0
       \/ Cardinality({o \in RunsOf(t) : run[o].status # "skipped"}) < journal[t].cap
    /\ Begin(r, PeriodStep(t, journal[t].next, today),
             [on |-> t, at |-> journal[t].next, due |-> TRUE, day |-> today])
    /\ UNCHANGED recVars

NextPeriod(r) ==
    LET d == loc[r]
        next == AdvanceFrequency(d.at, journal[d.on].freq)
    IN  IF ~d.due THEN End(r)
        ELSE Goto(r, PeriodStep(d.on, next, d.day),
                  [on |-> d.on, at |-> next, due |-> TRUE, day |-> d.day])

(* preview_for_period: nothing where the period has a run; otherwise a     *)
(* draft by PostingService, in a transaction of its own, or its refusal,   *)
(* which ends the request ...                                              *)
PreviewDraft(r) ==
    /\ pc[r] = "preview"
    /\ LET o == <<loc[r].on, loc[r].at>>
       IN  \/ run[o].status # "none" /\ NextPeriod(r) /\ UNCHANGED stray
           \/ run[o].status = "none" /\ End(r) /\ UNCHANGED stray
           \/ /\ run[o].status = "none" /\ stray[o] < MaxEntries
              /\ stray' = [stray EXCEPT ![o] = @ + 1]
              /\ Goto(r, "preview_run", loc[r])
    /\ UNCHANGED <<today, tmplVars, invTmplVars, journal, run, schedVars, unrecorded>>

(* ... then the run, which the unique index gives to one request ...       *)
PreviewRun(r) ==
    /\ pc[r] = "preview_run"
    /\ LET o == <<loc[r].on, loc[r].at>>
       IN  \/ /\ run[o].status = "none"
              /\ run' = [run EXCEPT ![o] = [status |-> "preview", has |-> "draft"]]
              /\ stray' = [stray EXCEPT ![o] = @ - 1]
              /\ NextPeriod(r)
           \/ /\ run[o].status # "none"
              /\ Goto(r, "preview_lost", loc[r])
              /\ UNCHANGED <<run, stray>>
    /\ UNCHANGED <<today, tmplVars, invTmplVars, journal, schedVars, unrecorded>>

(* ... and the loser deletes its draft; when that fails nobody is told and *)
(* the draft stays.                                                        *)
PreviewLost(r) ==
    /\ pc[r] = "preview_lost"
    /\ \/ /\ stray' = [stray EXCEPT ![<<loc[r].on, loc[r].at>>] = @ - 1]
          /\ UNCHANGED unrecorded
       \/ /\ unrecorded' = unrecorded \cup {loc[r].on}
          /\ UNCHANGED stray
    /\ NextPeriod(r)
    /\ UNCHANGED <<today, tmplVars, invTmplVars, journal, run, schedVars>>

(* run_due leaves the first period it has not handled as next_period. *)
RunDueEnd(r) ==
    /\ pc[r] = "run_due_end"
    /\ journal' = [journal EXCEPT ![loc[r].on].next = loc[r].at]
    /\ End(r)
    /\ UNCHANGED <<today, tmplVars, invTmplVars, run, stray, schedVars, unrecorded>>

(* Fault: skip moves the template on without a row for the period. *)
SkipRunForgets(r, t) ==
    /\ t \in Live(journal)
    /\ Begin(r, "skip_next", [on |-> t, at |-> journal[t].next, was |-> journal[t].next])
    /\ UNCHANGED recVars

(* skip: a row for the period if there is none, then the template's next   *)
(* period read and, where it was this one, moved.                          *)
SkipRun(r, t) ==
    /\ t \in Live(journal)
    /\ \E p \in Occurrences(journal[t].start, journal[t].freq, today + 1) :
         /\ run[<<t, p>>].status = "none"
         /\ run' = [run EXCEPT ![<<t, p>>] = [status |-> "skipped", has |-> "none"]]
         /\ Begin(r, "skip_read", [on |-> t, at |-> p])
    /\ UNCHANGED <<today, tmplVars, invTmplVars, journal, stray, schedVars, unrecorded>>

SkipRead(r) ==
    /\ pc[r] = "skip_read"
    /\ IF journal[loc[r].on].next = loc[r].at THEN Goto(r, "skip_next", loc[r]) ELSE End(r)
    /\ UNCHANGED recVars

SkipNext(r) ==
    /\ pc[r] = "skip_next"
    /\ LET t == loc[r].on
       IN  journal' = [journal EXCEPT ![t].next = AdvanceFrequency(loc[r].at, journal[t].freq)]
    /\ End(r)
    /\ UNCHANGED <<today, tmplVars, invTmplVars, run, stray, schedVars, unrecorded>>

(* post_run: post_draft of PostingService posts the draft once (it locks   *)
(* the row and wants a draft), and a second statement says so in the run.  *)
PostRunDraft(r, o) ==
    /\ run[o].status = "preview" /\ run[o].has = "draft"
    /\ run' = [run EXCEPT ![o].has = "posted"]
    /\ Begin(r, "post_run_end", [on |-> o[1], period |-> o[2]])
    /\ UNCHANGED <<today, tmplVars, invTmplVars, journal, stray, schedVars, unrecorded>>

PostRunEnd(r) ==
    /\ pc[r] = "post_run_end"
    /\ run' = [run EXCEPT ![<<loc[r].on, loc[r].period>>].status = "posted"]
    /\ End(r)
    /\ UNCHANGED <<today, tmplVars, invTmplVars, journal, stray, schedVars, unrecorded>>

(* The draft is discarded on the transactions page: draft_txn_id is NULL. *)
RunDraftDiscarded(o) ==
    /\ run[o].has = "draft"
    /\ run' = [run EXCEPT ![o].has = "none"]
    /\ UNCHANGED <<today, reqVars, tmplVars, invTmplVars, journal, stray, schedVars, unrecorded>>

RecurringCutOff(r) ==
    /\ CutOff(r)
    /\ unrecorded' = unrecorded \cup {loc[r].on}
    /\ UNCHANGED <<today, tmplVars, invTmplVars, journalVars, schedVars>>

RecurringJournalsNext ==
    \/ NextDay
    \/ \E r \in Req :
          \/ PreviewDraft(r) \/ PreviewRun(r) \/ PreviewLost(r) \/ RunDueEnd(r) \/ SkipRead(r)
          \/ SkipNext(r) \/ PostRunEnd(r) \/ RecurringCutOff(r)
          \/ \E t \in Tmpl : \/ JournalCreate(r, t) \/ SetPaused(r, t) \/ SkipRun(r, t)
                             \/ PreviewBegin(r, t) \/ RunDueBegin(r, t)
          \/ \E o \in DOMAIN run : PostRunDraft(r, o)
    \/ \E o \in DOMAIN run : RunDraftDiscarded(o)

-----------------------------------------------------------------------------
(* Amortization schedules. *)
ScheduleCreate(r, t) ==
    /\ t \notin Live(sched)
    /\ \E unit \in Frequencies \ {"weekly", "biweekly"}, d \in StartDates, n \in 1..MaxPeriods :
         sched' = [sched EXCEPT ![t] = [start |-> d, next |-> d, unit |-> unit,
                                        periods |-> n, posted |-> 0, skipped |-> 0]]
    /\ Serve(r, t)
    /\ UNCHANGED <<today, tmplVars, invTmplVars, journalVars, recorded, entries, unrecorded>>

(* skip: one UPDATE, without a look at how many periods are left. *)
ScheduleSkip(r, t) ==
    /\ t \in Live(sched) /\ sched[t].skipped < MaxEntries
    /\ LET s == sched[t]
       IN  sched' = [sched EXCEPT ![t] = [start |-> s.start, next |-> AddMonths(s.next, 1),
                        unit |-> s.unit, periods |-> s.periods, posted |-> s.posted,
                        skipped |-> s.skipped + 1]]
    /\ Serve(r, t)
    /\ UNCHANGED <<today, tmplVars, invTmplVars, journalVars, recorded, entries, unrecorded>>

(* run_sweep: the schedules that are due, each with the number of its next *)
(* period (one request per schedule here: they touch no common row).       *)
SweepRead(r, t) ==
    /\ t \in Live(sched)
    /\ sched[t].next <= today
    /\ sched[t].posted + sched[t].skipped < sched[t].periods
    /\ Begin(r, "amortize_check", [on |-> t, period |-> sched[t].posted + 1])
    /\ UNCHANGED recVars

(* post_one: its first transaction looks whether the period is recorded    *)
(* and reads the date ...                                                  *)
AmortizeCheck(r) ==
    /\ pc[r] = "amortize_check"
    /\ IF <<loc[r].on, loc[r].period>> \in recorded
       THEN End(r)
       ELSE Goto(r, "amortize_create",
                 [on |-> loc[r].on, period |-> loc[r].period, at |-> sched[loc[r].on].next])
    /\ UNCHANGED recVars

(* ... PostingService posts the entry in another, or refuses it ...        *)
AmortizeCreate(r) ==
    /\ pc[r] = "amortize_create"
    /\ LET o == <<loc[r].on, loc[r].period>>
       IN  \/ End(r) /\ UNCHANGED entries
           \/ /\ Len(entries[o]) < MaxEntries
              /\ entries' = [entries EXCEPT ![o] = Append(@, loc[r].at)]
              /\ Goto(r, "amortize_record", loc[r])
    /\ UNCHANGED <<today, tmplVars, invTmplVars, journalVars, sched, recorded, unrecorded>>

(* ... and a third transaction records the period and moves the schedule,  *)
(* always by one month (compute_period_unit).                              *)
AmortizeRecord(r) ==
    /\ pc[r] = "amortize_record"
    /\ LET d == loc[r]
           s == sched[d.on]
       IN  /\ recorded' = recorded \cup {<<d.on, d.period>>}
           /\ sched' = [sched EXCEPT ![d.on] = [start |-> s.start,
                        next |-> AddMonthsOrStay(d.at, 1), unit |-> s.unit,
                        periods |-> s.periods, posted |-> d.period, skipped |-> s.skipped]]
    /\ End(r)
    /\ UNCHANGED <<today, tmplVars, invTmplVars, journalVars, entries, unrecorded>>

AmortizationNext ==
    \/ NextDay
    \/ \E r \in Req :
          \/ AmortizeCheck(r) \/ AmortizeCreate(r) \/ AmortizeRecord(r) \/ RecurringCutOff(r)
          \/ \E t \in Tmpl : ScheduleCreate(r, t) \/ ScheduleSkip(r, t) \/ SweepRead(r, t)

(* All of them together. *)
RecurringNext ==
    TemplatesNext \/ RecurringInvoicesNext \/ RecurringJournalsNext \/ AmortizationNext

RecurringSpec ==
    InitRequests /\ InitRecurring /\ [][RecurringNext]_<<reqVars, recVars>>

-----------------------------------------------------------------------------
(* The rows of the schedules: the next date is always one the calendar has *)
(* (chrono would panic or give up otherwise), a period one that was agreed *)
(* on, the run of a journal in one of its states.                          *)
RecurringTypeOK ==
    /\ today \in Days
    /\ \A t \in Live(tmpl) : IsDate(tmpl[t].next)
    /\ \A t \in Live(sched) : IsDate(sched[t].next)
    /\ auto \cup issued \subseteq Tmpl \X AllDates
    /\ recorded \subseteq Tmpl \X (1..MaxPeriods)
    /\ \A o \in DOMAIN run : run[o].status \in {"none", "preview", "posted", "skipped"}
    /\ \A o \in DOMAIN stray : stray[o] \in Nat

(* "posts every due occurrence exactly once ... can race safely"           *)
(* (jobs/template_run.rs): the job posts the occurrences of a template in  *)
(* order and without a hole, and the next date of a template is never one  *)
(* it has posted, which would stop it for good.  Two scans, users and a    *)
(* scan cut off between two occurrences do not break that.                 *)
OccurrencesInOrder ==
    \A t \in Live(tmpl) :
        {o[2] : o \in {o \in auto : o[1] = t}} =
            Occurrences(tmpl[t].start, tmpl[t].freq, tmpl[t].next)

(* Recurring invoices of a template are its first occurrences, without a   *)
(* hole (jobs/recurring_invoices.rs), however scans overlap or are cut     *)
(* off.  Not every due occurrence comes: nothing moves next_date, and the  *)
(* first invoice that exists ends each later scan.                         *)
InvoicesInOrder ==
    \A o \in issued :
        \A d \in Occurrences(invTmpl[o[1]].next, invTmpl[o[1]].freq, o[2]) :
            <<o[1], d>> \in issued

(* "Skipped periods generate nothing; later periods continue" and "double  *)
(* fire returns the existing run" (handlers/recurring_journals.rs): every  *)
(* period before next_period has its run, although run_due and skip write  *)
(* a next_period they computed from an earlier read.                       *)
NoPeriodLost ==
    \A t \in Live(journal) :
        \A p \in Occurrences(journal[t].start, journal[t].freq, journal[t].next) :
            run[<<t, p>>].status # "none"

(* A period has one transaction, the one its run names, and a posted run   *)
(* names a posted one: the request that loses the race for the run removes *)
(* its draft.  A request cut off before it writes the run, or whose        *)
(* removal fails, leaves a draft that no run knows of.                     *)
PeriodDraftedOnce ==
    \A o \in DOMAIN stray :
        /\ run[o].status = "posted" => run[o].has = "posted"
        /\ \/ o[1] \in unrecorded
           \/ stray[o] = Cardinality({r \in WorkingOn(o[1]) :
                                        /\ pc[r] \in {"preview_run", "preview_lost"}
                                        /\ loc[r].at = o[2]})

(* "hasn't already posted that period (idempotent via the                  *)
(* amortization_posted_periods table)" (workers/amortization.rs): one      *)
(* entry per period, as long as sweeps do not overlap and none is cut off  *)
(* between the entry and its record, and never more periods than agreed.   *)
AmortizedOnce ==
    \A t \in Live(sched), n \in 1..MaxPeriods :
        /\ entries[<<t, n>>] # <<>> => n <= sched[t].periods
        /\ t \notin raced \cup unrecorded => Len(entries[<<t, n>>]) <= 1

(* A period that is recorded was posted, and so were those before it. *)
RecordedIsPosted ==
    \A o \in recorded : \A n \in 1..o[2] : entries[<<o[1], n>>] # <<>>

(* What a schedule posts it posts once, in order and without a hole,       *)
(* although scans overlap, users interfere and either is cut off.          *)
SchedulesSound ==
    /\ RecurringTypeOK
    /\ OccurrencesInOrder
    /\ InvoicesInOrder
    /\ NoPeriodLost
    /\ PeriodDraftedOnce
    /\ AmortizedOnce
    /\ RecordedIsPosted
=============================================================================
