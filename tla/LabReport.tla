----------------------------- MODULE LabReport -----------------------------
(***************************************************************************)
(* One laboratory report (internal/lab/service.go and jobs.go,             *)
(* db/queries/lab.sql): an upload queues its extraction, a worker parses   *)
(* the file between two transactions, and the operator corrects the        *)
(* extracted evidence and confirms it.  Reports do not touch each other.   *)
(*                                                                         *)
(* A re-upload of a FAILED report queues another job; the first one may    *)
(* still be waiting for its rescue, so two extractions can meet.           *)
(***************************************************************************)
EXTENDS River, FiniteSets

CONSTANTS
    Jobs,         \* extraction jobs that may be queued
    Workers,
    MaxVersion,   \* bound on the corrections of a report
    MaxFaults,    \* bound on crashes and failed statements
    Nothing

ASSUME ReportBoundsAssumption == MaxVersion \in Nat \ {0} /\ MaxFaults \in Nat
ASSUME NothingAssumption == Nothing \notin {"DRAFT", "CONFIRMED", "SUPERSEDED"}

MaxAttempts == 2    \* InsertOpts

VARIABLES
    status, current,   \* lab_reports: status ("ABSENT" before), current_version
    version,           \* lab_report_versions: the status of each, or Nothing
    gaps,              \* the versions with open gaps
    confirmations,     \* the versions lab_confirmations records
    job, worker, faults

rows == <<status, current, version, gaps, confirmations>>
reportVars == <<rows, job, worker, faults>>

Versions == 1..MaxVersion
Extracting == {"UPLOADED", "PROCESSING"}
Unoccupied == [at |-> "idle", job |-> Nothing, attempt |-> 0]

ReportInit ==
    /\ status = "ABSENT"
    /\ current = 0
    /\ version = [n \in Versions |-> Nothing]
    /\ gaps = {}
    /\ confirmations = {}
    /\ job = [j \in Jobs |-> NoJob]
    /\ worker = [w \in Workers |-> Unoccupied]
    /\ faults = 0

-----------------------------------------------------------------------------
(* The content is new to the workspace, or it is that of a FAILED report. *)
CreateLabReport == status = "ABSENT" /\ status' = "UPLOADED"
RetryFailedLabReport == status = "FAILED" /\ status' = "UPLOADED"

(* Create: either queues a job in the same transaction; any other upload   *)
(* of the content changes nothing.                                         *)
Create(j) ==
    /\ CreateLabReport \/ RetryFailedLabReport
    /\ job[j] = NoJob
    /\ job' = [job EXCEPT ![j] = Queued]
    /\ UNCHANGED <<current, version, gaps, confirmations, worker, faults>>

(* UNIQUE (report_id, version). *)
FreeOrNot(n) == TRUE
Free(n) == version[n] = Nothing

CreateLabReportVersion(v, n) == [v EXCEPT ![n] = "DRAFT"]

CreateLabReportGap(n, gappy) == gaps' = IF gappy THEN gaps \cup {n} ELSE gaps

PersistDraft(v, n, gappy) ==
    /\ version' = CreateLabReportVersion(v, n)
    /\ CreateLabReportGap(n, gappy)

(* The status a draft leaves the report in. *)
Reviewed(gappy) == IF gappy THEN "NEEDS_REVIEW" ELSE "READY_TO_CONFIRM"

CompleteLabReportExtraction(n, gappy) ==
    /\ status' = Reviewed(gappy)
    /\ current' = n

(* A correction is a new version that supersedes the current one. *)
SupersedeNothing == version
SupersedeCurrentLabReportVersion ==
    [n \in Versions |-> IF n = current /\ version[n] \in {"DRAFT", "CONFIRMED"}
                        THEN "SUPERSEDED" ELSE version[n]]

Correctable == status \notin {"ABSENT", "CONFIRMED"} \cup Extracting

Correct(gappy) ==
    /\ Correctable
    /\ current < MaxVersion
    /\ Free(current + 1)
    /\ PersistDraft(SupersedeCurrentLabReportVersion, current + 1, gappy)
    /\ CompleteLabReportExtraction(current + 1, gappy)
    /\ UNCHANGED <<confirmations, job, worker, faults>>

ListGapsForVersion(n) == gaps \cap {n}

ConfirmLabReportVersion(n) ==
    /\ version[n] = "DRAFT"
    /\ version' = [version EXCEPT ![n] = "CONFIRMED"]
ConfirmLabReport == status' = "CONFIRMED"
CreateLabConfirmation(n) == confirmations' = confirmations \cup {n}

(* Confirm: on a report confirmed already it is a no-op. *)
Confirm ==
    /\ status = "READY_TO_CONFIRM"
    /\ current >= 1
    /\ ListGapsForVersion(current) = {}
    /\ ConfirmLabReportVersion(current)
    /\ ConfirmLabReport
    /\ CreateLabConfirmation(current)
    /\ UNCHANGED <<current, gaps, job, worker, faults>>

-----------------------------------------------------------------------------
Become(w, at) == worker' = [worker EXCEPT ![w].at = at]

Fetch(w, j) ==
    /\ worker[w] = Unoccupied
    /\ job[j].state = "available"
    /\ job' = [job EXCEPT ![j] = Fetched(@)]
    /\ worker' = [worker EXCEPT ![w] =
         [at |-> "begin", job |-> j, attempt |-> job[j].tries + 1]]
    /\ UNCHANGED <<rows, faults>>

MarkLabReportProcessing == status' = "PROCESSING"

(* The first transaction of Process. *)
Begin(w) ==
    /\ worker[w].at = "begin"
    /\ IF status \in Extracting
       THEN MarkLabReportProcessing /\ Become(w, "parse")
       ELSE UNCHANGED status /\ Become(w, "nil")
    /\ UNCHANGED <<current, version, gaps, confirmations, job, faults>>

(* The parser: a draft, with or without gaps, an ExtractionError, or       *)
(* another error.                                                          *)
Parse(w) ==
    /\ worker[w].at = "parse"
    /\ \E result \in {"clean", "gappy", "unreadable", "failed"} : Become(w, result)
    /\ UNCHANGED <<rows, job, faults>>

(* The second transaction of Process: the draft is version 1. *)
StoreDraft(gappy) ==
    /\ PersistDraft(version, 1, gappy)
    /\ CompleteLabReportExtraction(1, gappy)
    /\ UNCHANGED confirmations

Late == status # "PROCESSING"

Persist(w) ==
    /\ worker[w].at \in {"clean", "gappy"}
    /\ IF Late THEN UNCHANGED rows /\ Become(w, "nil")
       ELSE IF ~Free(1) THEN UNCHANGED rows /\ Become(w, "failed")
       ELSE StoreDraft(worker[w].at = "gappy") /\ Become(w, "nil")
    /\ UNCHANGED <<job, faults>>

(* The commit is done but its acknowledgement is lost with the connection. *)
PersistUnacknowledged(w) ==
    /\ worker[w].at \in {"clean", "gappy"}
    /\ ~Late
    /\ Free(1)
    /\ StoreDraft(worker[w].at = "gappy")
    /\ Become(w, "failed")
    /\ faults < MaxFaults
    /\ faults' = faults + 1
    /\ UNCHANGED job

FailAny == status' = "FAILED"
FailLabReport == status' = IF status = "CONFIRMED" THEN status ELSE "FAILED"

(* Work records a file that cannot be read, or the failure of the last     *)
(* attempt the queue allows.                                               *)
GiveUpNever(w) == worker[w].at = "unreadable"
GiveUp(w) ==
    \/ worker[w].at = "unreadable"
    \/ worker[w].at = "failed" /\ worker[w].attempt >= MaxAttempts

Fail(w) ==
    /\ GiveUp(w)
    /\ FailLabReport
    /\ Become(w, "nil")
    /\ UNCHANGED <<current, version, gaps, confirmations, job, faults>>

ReturnError(w) ==
    /\ worker[w].at = "failed"
    /\ ~GiveUp(w)
    /\ Become(w, "error")
    /\ UNCHANGED <<rows, job, faults>>

-----------------------------------------------------------------------------
Return(w) ==
    /\ worker[w].at \in {"nil", "error"}
    /\ job' = [job EXCEPT ![worker[w].job] = Settled(@, worker[w].at, MaxAttempts)]
    /\ worker' = [worker EXCEPT ![w] = Unoccupied]
    /\ UNCHANGED <<rows, faults>>

(* A transaction of Process fails and rolls back; or Fail itself does, and *)
(* then Work returns its error whatever attempt it is.                     *)
StatementFails(w) ==
    /\ faults < MaxFaults
    /\ faults' = faults + 1
    /\ IF GiveUp(w) THEN Become(w, "error")
       ELSE worker[w].at \in {"begin", "clean", "gappy"} /\ Become(w, "failed")
    /\ UNCHANGED <<rows, job>>

Crash(w) ==
    /\ worker[w] # Unoccupied
    /\ faults < MaxFaults
    /\ faults' = faults + 1
    /\ worker' = [worker EXCEPT ![w] = Unoccupied]
    /\ UNCHANGED <<rows, job>>

(* River finds a job that a dead process left running. *)
Rescue(j) ==
    /\ job[j].state = "running"
    /\ \A w \in Workers : worker[w].job # j
    /\ job' = [job EXCEPT ![j] = Retried(@, MaxAttempts)]
    /\ UNCHANGED <<rows, worker, faults>>

Work(w) ==
    \/ Begin(w)
    \/ Parse(w)
    \/ Persist(w)
    \/ Fail(w)
    \/ ReturnError(w)
    \/ Return(w)

ReportNext ==
    \/ \E j \in Jobs : Create(j) \/ Rescue(j)
    \/ \E gappy \in BOOLEAN : Correct(gappy)
    \/ Confirm
    \/ \E w \in Workers : \/ \E j \in Jobs : Fetch(w, j)
                          \/ Work(w)
                          \/ PersistUnacknowledged(w)
                          \/ StatementFails(w)
                          \/ Crash(w)

ReportSpec == ReportInit /\ [][ReportNext]_reportVars

(* River keeps fetching and rescuing; the job timeout ends every attempt. *)
Fairness ==
    /\ \A w \in Workers : WF_reportVars(Work(w))
    /\ \A j \in Jobs : /\ WF_reportVars(\E w \in Workers : Fetch(w, j))
                       /\ WF_reportVars(Rescue(j))
FairSpec == ReportSpec /\ Fairness

-----------------------------------------------------------------------------
Worker == {Unoccupied} \cup
    [at: {"begin", "parse", "clean", "gappy", "unreadable", "failed", "nil", "error"},
     job: Jobs, attempt: 1..MaxAttempts]

(* The rows, the jobs and the workers have their types. *)
ReportTypeOK ==
    /\ status \in {"ABSENT", "NEEDS_REVIEW", "READY_TO_CONFIRM", "CONFIRMED", "FAILED"}
                    \cup Extracting
    /\ current \in 0..MaxVersion
    /\ version \in [Versions -> {Nothing, "DRAFT", "CONFIRMED", "SUPERSEDED"}]
    /\ gaps \subseteq Versions
    /\ confirmations \subseteq Versions
    /\ job \in [Jobs -> JobRow(MaxAttempts)]
    /\ worker \in [Workers -> Worker]
    /\ faults \in 0..MaxFaults

(* The versions are one history: those up to current_version exist, all    *)
(* but the current one are superseded, and what the operator is asked to   *)
(* confirm is the current draft, without a gap.                            *)
OneHistory ==
    /\ \A n \in Versions :
         IF n > current THEN version[n] = Nothing
         ELSE n < current <=> version[n] = "SUPERSEDED"
    /\ status \in {"NEEDS_REVIEW", "READY_TO_CONFIRM"} =>
         /\ current \in Versions
         /\ version[current] = "DRAFT"
         /\ current \in gaps <=> status = "NEEDS_REVIEW"

(* A report is confirmed exactly when one confirmation is recorded, that   *)
(* of its current version, which has no gap.                               *)
ConfirmedOnce ==
    /\ status = "CONFIRMED" <=> confirmations # {}
    /\ confirmations # {} =>
         /\ confirmations = {current}
         /\ version[current] = "CONFIRMED"
         /\ current \notin gaps

(* Confirmed evidence is immutable (the conflict Correct answers, README   *)
(* "Module 1"): whatever extraction is still under way, no row of the      *)
(* report changes any more.                                                *)
ConfirmedIsImmutable == [][status = "CONFIRMED" => UNCHANGED rows]_reportVars

(* An extraction that ends late, or again, never takes the place of the    *)
(* evidence an operator corrected.                                         *)
CorrectionsStay == [][current' >= current]_reportVars

(* Every extraction ends, whatever the parser answers and whichever worker  *)
(* dies on the way, as Correct promises when it tells the operator to wait  *)
(* for it (service.go:240).  Only a fault in the last attempt of every job  *)
(* leaves a report PROCESSING.                                              *)
ExtractionEnds ==
    (status \in Extracting) ~>
        \/ status \notin Extracting
        \/ faults > 0 /\ \A j \in Jobs : job[j].state \notin {"available", "running"}

(* The report, its versions and its confirmations agree, whatever jobs,    *)
(* corrections and confirmations met: typed, one history, confirmed once.  *)
ReportConsistent == ReportTypeOK /\ OneHistory /\ ConfirmedOnce
=============================================================================
