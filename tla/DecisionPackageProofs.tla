----------------------- MODULE DecisionPackageProofs -----------------------
(***************************************************************************)
(* For any batch quantities, fields, packs, evaluations, clients and       *)
(* number of changes: the placement engine's plan is sound, and so is      *)
(* every package whatever changed between the reads it is made of.         *)
(*                                                                         *)
(* The report comes first.  DecisionPackage reads the confirmed report and *)
(* its gaps in several places and takes them as fixed: what makes that     *)
(* right is that no row of a confirmed report changes any more, and that   *)
(* is a theorem of LabReport.  Then the engine: its loops and sums, its    *)
(* ranking, its rounding, its allocation, its plans.  Then the packages:   *)
(* what the tables hold and what a client that is still reading has read.  *)
(*                                                                         *)
(* Packages are read in four steps with other actors in between; what is   *)
(* read stays true because decisions, plans and packages are only added,   *)
(* and a row a plan rests on, an evaluation that SUCCEEDED, keeps its gaps *)
(* and turns FAILED at most, which its row then explains (Overruled).      *)
(* Grows says so of each step, and ReadsStay carries it over to what       *)
(* clients hold.                                                           *)
(***************************************************************************)
EXTENDS DecisionPackage, LabReport, FiniteSetTheorems, WellFoundedInduction, TLAPS

-----------------------------------------------------------------------------
(***************************************************************************)
(* The report (LabReport).                                                 *)
(*                                                                         *)
(* Persist stores version 1 without looking at current_version: it is the  *)
(* unique key on (report, version) that stops it.  That is enough because  *)
(* the current version always stands (CurrentStands): a free version 1     *)
(* means that there is no version at all.                                  *)
(***************************************************************************)

(* The current version is one nobody superseded, and only versions that    *)
(* exist have gaps.                                                        *)
CurrentStands ==
    /\ current >= 1 => version[current] \in {"DRAFT", "CONFIRMED"}
    /\ gaps \subseteq 1..current

(* No version is newer than the current one. *)
NoneNewer == \A n \in Versions : n > current => version[n] = Nothing

(* A job that waits for a worker has an attempt left. *)
AttemptLeft == \A j \in Jobs : job[j].state = "available" => job[j].tries < MaxAttempts

(* The inductive invariant of the report.                                  *)
ReportInv == ReportTypeOK /\ OneHistory /\ ConfirmedOnce /\ CurrentStands /\ AttemptLeft

-----------------------------------------------------------------------------
(* A worker that is not idle is at work on a job of the queue. *)
LEMMA WorkerType ==
    ASSUME ReportTypeOK, NEW w \in Workers, worker[w].at # "idle"
    PROVE  worker[w] \in Worker \ {Unoccupied} /\ worker[w].job \in Jobs
BY DEF ReportTypeOK, Worker, Unoccupied

(* What the queue does to the row of a job keeps its type and its attempts. *)
LEMMA QueueRows ==
    ASSUME NEW b \in JobRow(MaxAttempts),
           b.state = "available" => b.tries < MaxAttempts,
           NEW answer \in {"nil", "error"}
    PROVE  /\ NoJob \in JobRow(MaxAttempts)
           /\ Queued \in JobRow(MaxAttempts)
           /\ b.state = "available" => /\ Fetched(b) \in JobRow(MaxAttempts)
                                       /\ Fetched(b).state # "available"
           /\ Retried(b, MaxAttempts) \in JobRow(MaxAttempts)
           /\ Retried(b, MaxAttempts).state = "available" =>
                  Retried(b, MaxAttempts).tries < MaxAttempts
           /\ Settled(b, answer, MaxAttempts) \in JobRow(MaxAttempts)
           /\ Settled(b, answer, MaxAttempts).state = "available" =>
                  Settled(b, answer, MaxAttempts).tries < MaxAttempts
<1> USE DEF JobRow, NoJob, Queued, Fetched, Retried, Settled, MaxAttempts
<1>1. Retried(b, MaxAttempts) \in JobRow(MaxAttempts)
    OBVIOUS
<1>2. Retried(b, MaxAttempts).state = "available" =>
          Retried(b, MaxAttempts).tries < MaxAttempts
    OBVIOUS
<1>3. CASE b.state # "running" BY <1>1, <1>2, <1>3
<1>4. CASE b.state = "running" /\ answer = "nil" BY <1>1, <1>2, <1>4
<1>5. CASE b.state = "running" /\ answer = "error" BY <1>1, <1>2, <1>5
<1> QED BY <1>3, <1>4, <1>5

(* The versions, gaps and confirmations are typed while the report is. *)
RowsTyped ==
    /\ status \in {"ABSENT", "NEEDS_REVIEW", "READY_TO_CONFIRM", "CONFIRMED", "FAILED"}
                    \cup Extracting
    /\ current \in 0..MaxVersion
    /\ version \in [Versions -> {Nothing, "DRAFT", "CONFIRMED", "SUPERSEDED"}]
    /\ gaps \subseteq Versions
    /\ confirmations \subseteq Versions

RowsInv == RowsTyped /\ OneHistory /\ ConfirmedOnce /\ CurrentStands

LEMMA ReportInitInv == ReportInit => ReportInv
BY ReportBoundsAssumption, NothingAssumption
   DEF ReportInit, ReportInv, ReportTypeOK, OneHistory, ConfirmedOnce, CurrentStands, AttemptLeft,
       Versions, NoJob, JobRow, Worker, Unoccupied, MaxAttempts

-----------------------------------------------------------------------------
(* A new draft on top of a history keeps the history, whether it is the    *)
(* first version or supersedes the current one.                            *)
LEMMA DraftKeepsRows ==
    ASSUME RowsInv, status # "CONFIRMED", current < MaxVersion, NEW gappy \in BOOLEAN,
           PersistDraft(SupersedeCurrentLabReportVersion, current + 1, gappy),
           CompleteLabReportExtraction(current + 1, gappy),
           UNCHANGED confirmations
    PROVE  RowsInv'
<1> USE DEF RowsInv
<1>1. current \in Nat /\ current' = current + 1 /\ current' \in Versions
    BY ReportBoundsAssumption DEF RowsTyped, CompleteLabReportExtraction, Versions
<1>2. version' = [SupersedeCurrentLabReportVersion EXCEPT ![current + 1] = "DRAFT"]
    BY DEF PersistDraft, CreateLabReportVersion
<1>3. gaps' = IF gappy THEN gaps \cup {current + 1} ELSE gaps
    BY DEF PersistDraft, CreateLabReportGap
<1>4. status' = IF gappy THEN "NEEDS_REVIEW" ELSE "READY_TO_CONFIRM"
    BY DEF CompleteLabReportExtraction, Reviewed
<1>5. \A n \in Versions :
        version'[n] = IF n = current + 1 THEN "DRAFT"
                      ELSE IF n = current THEN "SUPERSEDED" ELSE version[n]
    BY <1>1, <1>2 DEF SupersedeCurrentLabReportVersion, CurrentStands, Versions, RowsTyped
<1>6. RowsTyped'
  <2>1. version' \in [Versions -> {Nothing, "DRAFT", "CONFIRMED", "SUPERSEDED"}]
      BY <1>1, <1>2 DEF RowsTyped, SupersedeCurrentLabReportVersion
  <2> QED BY <1>1, <1>3, <1>4, <2>1 DEF RowsTyped, Versions
<1>7. confirmations = {} /\ confirmations' = {} BY DEF ConfirmedOnce
<1>8. gaps' \subseteq 1..current' /\ (current + 1 \in gaps' <=> gappy)
    BY <1>1, <1>3 DEF CurrentStands
<1>9. OneHistory'
  <2>1. ASSUME NEW n \in Versions
        PROVE  IF n > current' THEN version'[n] = Nothing
               ELSE n < current' <=> version'[n] = "SUPERSEDED"
      BY <1>1, <1>5, NothingAssumption DEF OneHistory, Versions
  <2> QED BY <1>1, <1>4, <1>5, <1>8, <2>1 DEF OneHistory
<1>10. ConfirmedOnce' BY <1>4, <1>7 DEF ConfirmedOnce
<1>11. CurrentStands' BY <1>1, <1>5, <1>8 DEF CurrentStands
<1> QED BY <1>6, <1>9, <1>10, <1>11

(* A version 1 that is free means that the report has none. *)
LEMMA FreeMeansNone == ASSUME RowsInv, Free(1) PROVE current = 0
<1>1. current \in 0..MaxVersion /\ 1 \in Versions
    BY ReportBoundsAssumption DEF RowsInv, RowsTyped, Versions
<1>2. CASE current = 1
    BY <1>2, NothingAssumption DEF RowsInv, Free, CurrentStands
<1>3. CASE current > 1
    BY <1>1, <1>3, NothingAssumption DEF RowsInv, Free, OneHistory
<1> QED BY <1>1, <1>2, <1>3

(* The draft of an extraction is the first version of its report. *)
LEMMA StoredDraftKeepsRows ==
    ASSUME RowsInv, ~Late, Free(1), NEW gappy \in BOOLEAN, StoreDraft(gappy)
    PROVE  RowsInv'
<1>1. current = 0 BY FreeMeansNone
<1>2. SupersedeCurrentLabReportVersion = version
    BY <1>1 DEF SupersedeCurrentLabReportVersion, Versions, RowsInv, RowsTyped
<1>3. /\ PersistDraft(SupersedeCurrentLabReportVersion, current + 1, gappy)
      /\ CompleteLabReportExtraction(current + 1, gappy)
      /\ UNCHANGED confirmations
    BY <1>1, <1>2 DEF StoreDraft
<1> QED BY <1>1, <1>3, DraftKeepsRows, ReportBoundsAssumption DEF Late

(* The confirmation of the current draft. *)
LEMMA ConfirmKeepsRows == ASSUME RowsInv, Confirm PROVE RowsInv'
<1> USE DEF RowsInv
<1>1. current \in Versions BY DEF Confirm, RowsTyped, Versions
<1>2. /\ status' = "CONFIRMED"
      /\ version' = [version EXCEPT ![current] = "CONFIRMED"]
      /\ confirmations' = {current}
      /\ current' = current /\ gaps' = gaps /\ current \notin gaps
    BY DEF Confirm, ConfirmLabReport, ConfirmLabReportVersion, CreateLabConfirmation,
           ConfirmedOnce, ListGapsForVersion
<1>3. RowsTyped' BY <1>1, <1>2 DEF RowsTyped
<1>4. OneHistory'
    BY <1>1, <1>2, NothingAssumption DEF OneHistory, RowsTyped, Versions
<1>5. ConfirmedOnce' /\ CurrentStands'
    BY <1>1, <1>2 DEF ConfirmedOnce, CurrentStands, RowsTyped
<1> QED BY <1>3, <1>4, <1>5

(* A step that only moves the report between statuses that promise nothing *)
(* about its versions.                                                     *)
LEMMA StatusKeepsRows ==
    ASSUME RowsInv, status # "CONFIRMED", status' \in {"FAILED"} \cup Extracting,
           UNCHANGED <<current, version, gaps, confirmations>>
    PROVE  RowsInv'
BY DEF RowsInv, RowsTyped, OneHistory, ConfirmedOnce, CurrentStands, Extracting

LEMMA SameRows == ASSUME RowsInv, UNCHANGED rows PROVE RowsInv'
BY DEF RowsInv, RowsTyped, OneHistory, ConfirmedOnce, CurrentStands, rows

(* Every step keeps the rows in order: only an upload, a draft, a          *)
(* confirmation, a start and a failure touch them.                         *)
LEMMA RowsStep == ASSUME ReportInv, ReportNext PROVE RowsInv'
<1>0. RowsInv BY DEF ReportInv, RowsInv, ReportTypeOK, RowsTyped
<1>1. ASSUME NEW j \in Jobs, Create(j) PROVE RowsInv'
    BY <1>0, <1>1, StatusKeepsRows
       DEF Create, CreateLabReport, RetryFailedLabReport, Extracting
<1>2. ASSUME NEW gappy \in BOOLEAN, Correct(gappy) PROVE RowsInv'
    BY <1>0, <1>2, DraftKeepsRows DEF Correct, Correctable
<1>3. CASE Confirm BY <1>0, <1>3, ConfirmKeepsRows
<1>4. ASSUME NEW w \in Workers, Begin(w) PROVE RowsInv'
  <2>1. CASE status \in Extracting
      BY <1>0, <1>4, <2>1, StatusKeepsRows DEF Begin, MarkLabReportProcessing, Extracting
  <2>2. CASE status \notin Extracting
      BY <1>0, <1>4, <2>2, SameRows DEF Begin, rows
  <2> QED BY <2>1, <2>2
<1>5. ASSUME NEW w \in Workers, Persist(w) \/ PersistUnacknowledged(w) PROVE RowsInv'
    BY <1>0, <1>5, SameRows, StoredDraftKeepsRows DEF Persist, PersistUnacknowledged
<1>6. ASSUME NEW w \in Workers, Fail(w) PROVE RowsInv'
  <2>1. CASE status = "CONFIRMED"
      BY <1>0, <1>6, <2>1, SameRows DEF Fail, FailLabReport, rows
  <2>2. CASE status # "CONFIRMED"
      BY <1>0, <1>6, <2>2, StatusKeepsRows DEF Fail, FailLabReport
  <2> QED BY <2>1, <2>2
<1>7. ASSUME UNCHANGED rows PROVE RowsInv' BY <1>0, <1>7, SameRows
<1> QED
    BY <1>1, <1>2, <1>3, <1>4, <1>5, <1>6, <1>7
       DEF ReportNext, Work, Rescue, Fetch, Parse, ReturnError, Return, StatementFails, Crash

-----------------------------------------------------------------------------
(* What the queue and the workers keep of each other. *)
QueueInv ==
    /\ job \in [Jobs -> JobRow(MaxAttempts)]
    /\ worker \in [Workers -> Worker]
    /\ faults \in 0..MaxFaults
    /\ AttemptLeft

LEMMA BecomeType ==
    ASSUME ReportTypeOK, NEW w \in Workers, worker[w].at # "idle", 
           NEW at \in {"parse", "clean", "gappy", "unreadable", "failed", "nil", "error"},
           Become(w, at)
    PROVE  worker' \in [Workers -> Worker]
BY WorkerType DEF ReportTypeOK, Worker, Become

(* A step that replaces the row of one job by a sound one. *)
LEMMA JobStep ==
    ASSUME QueueInv, NEW j \in Jobs, NEW b \in JobRow(MaxAttempts),
           b.state = "available" => b.tries < MaxAttempts,
           job' = [job EXCEPT ![j] = b]
    PROVE  job' \in [Jobs -> JobRow(MaxAttempts)] /\ AttemptLeft'
BY DEF QueueInv, AttemptLeft

LEMMA QueueStep == ASSUME ReportInv, ReportNext PROVE QueueInv'
<1>0. QueueInv /\ ReportTypeOK BY DEF ReportInv, QueueInv, ReportTypeOK
<1>a. \A j \in Jobs : /\ job[j] \in JobRow(MaxAttempts)
                      /\ job[j].state = "available" => job[j].tries < MaxAttempts
    BY <1>0 DEF QueueInv, AttemptLeft
<1>b. faults < MaxFaults => faults + 1 \in 0..MaxFaults
    BY <1>0, ReportBoundsAssumption DEF QueueInv
<1>c. ASSUME UNCHANGED job PROVE job' \in [Jobs -> JobRow(MaxAttempts)] /\ AttemptLeft'
    BY <1>0, <1>c DEF QueueInv, AttemptLeft
<1>1. ASSUME NEW j \in Jobs, Create(j) PROVE QueueInv'
  <2>1. /\ Queued \in JobRow(MaxAttempts)
        /\ Queued.state = "available" => Queued.tries < MaxAttempts
      BY DEF Queued, JobRow, MaxAttempts
  <2> QED BY <1>0, <1>1, <2>1, JobStep DEF Create, QueueInv
<1>2. ASSUME NEW j \in Jobs, Rescue(j) PROVE QueueInv'
    BY <1>0, <1>a, <1>2, QueueRows, JobStep DEF Rescue, QueueInv
<1>3. ASSUME NEW w \in Workers, NEW j \in Jobs, Fetch(w, j) PROVE QueueInv'
  <2>1. /\ Fetched(job[j]) \in JobRow(MaxAttempts)
        /\ Fetched(job[j]).state # "available"
      BY <1>a, <1>3, QueueRows DEF Fetch
  <2>2. job[j].tries + 1 \in 1..MaxAttempts
      BY <1>a, <1>3 DEF Fetch, JobRow, MaxAttempts
  <2>3. worker' \in [Workers -> Worker]
      BY <1>0, <1>3, <2>2 DEF Fetch, QueueInv, Worker
  <2>4. job' = [job EXCEPT ![j] = Fetched(job[j])] BY <1>3 DEF Fetch
  <2>5. job' \in [Jobs -> JobRow(MaxAttempts)] /\ AttemptLeft'
      BY <1>0, <2>1, <2>4, JobStep
  <2> QED BY <1>0, <1>3, <2>3, <2>5 DEF Fetch, QueueInv
<1>4. ASSUME NEW w \in Workers, Return(w) PROVE QueueInv'
  <2> DEFINE j == worker[w].job
             b == Settled(job[j], worker[w].at, MaxAttempts)
  <2>1. j \in Jobs BY <1>0, <1>4, WorkerType DEF Return
  <2>2. b \in JobRow(MaxAttempts) /\ (b.state = "available" => b.tries < MaxAttempts)
      BY <1>a, <1>4, <2>1, QueueRows DEF Return
  <2>3. job' = [job EXCEPT ![j] = b] BY <1>4 DEF Return
  <2> HIDE DEF j, b
  <2>4. job' \in [Jobs -> JobRow(MaxAttempts)] /\ AttemptLeft'
      BY <1>0, <2>1, <2>2, <2>3, JobStep
  <2> QED BY <1>0, <1>4, <2>4 DEF Return, QueueInv, Worker
<1>5. ASSUME NEW w \in Workers,
             \/ Begin(w) \/ Parse(w) \/ Persist(w) \/ Fail(w) \/ ReturnError(w)
             \/ PersistUnacknowledged(w) \/ StatementFails(w)
      PROVE QueueInv'
  <2>1. worker[w].at # "idle" /\ UNCHANGED job /\ faults' \in 0..MaxFaults
      BY <1>0, <1>b, <1>5
         DEF QueueInv, Begin, Parse, Persist, Fail, ReturnError, PersistUnacknowledged,
             StatementFails, GiveUp
  <2>2. \E at \in {"parse", "clean", "gappy", "unreadable", "failed", "nil", "error"} :
            Become(w, at)
      BY <1>5
         DEF Begin, Parse, Persist, Fail, ReturnError, PersistUnacknowledged,
             StatementFails
  <2>3. worker' \in [Workers -> Worker] BY <1>0, <2>1, <2>2, BecomeType
  <2> QED BY <1>c, <2>1, <2>3 DEF QueueInv
<1>6. ASSUME NEW w \in Workers, Crash(w) PROVE QueueInv'
    BY <1>0, <1>b, <1>c, <1>6 DEF Crash, QueueInv, Worker
<1>7. CASE \/ \E gappy \in BOOLEAN : Correct(gappy)
           \/ Confirm
    BY <1>0, <1>c, <1>7 DEF Correct, Confirm, QueueInv
<1> QED BY <1>1, <1>2, <1>3, <1>4, <1>5, <1>6, <1>7 DEF ReportNext, Work

-----------------------------------------------------------------------------
LEMMA ReportNextInv == ReportInv /\ [ReportNext]_reportVars => ReportInv'
<1> SUFFICES ASSUME ReportInv, [ReportNext]_reportVars PROVE ReportInv' OBVIOUS
<1>1. CASE ReportNext
    BY <1>1, RowsStep, QueueStep DEF ReportInv, RowsInv, RowsTyped, QueueInv, ReportTypeOK
<1>2. CASE UNCHANGED reportVars
  <2>1. RowsInv' BY <1>2, SameRows DEF reportVars, ReportInv, RowsInv, RowsTyped, ReportTypeOK
  <2> QED
      BY <1>2, <2>1 DEF reportVars, ReportInv, RowsInv, RowsTyped, ReportTypeOK, AttemptLeft
<1> QED BY <1>1, <1>2

LEMMA ReportInvariance == ReportSpec => []ReportInv
BY ReportInitInv, ReportNextInv, PTL DEF ReportSpec

(* The report, its versions and its confirmations agree, whatever jobs,    *)
(* corrections and confirmations met (Process, Correct, Confirm).          *)
THEOREM ReportIsConsistent == ReportSpec => []ReportConsistent
<1>1. ReportInv => ReportConsistent BY DEF ReportInv, ReportConsistent
<1> QED BY <1>1, ReportInvariance, PTL

(* The current version of a report is one nobody superseded and the newest  *)
(* that is stored: the unique key keeps a late extraction from storing a    *)
(* first version again (persist).                                           *)
THEOREM CurrentVersionStands == ReportSpec => [](CurrentStands /\ NoneNewer)
<1>1. ReportInv => CurrentStands /\ NoneNewer
    BY DEF ReportInv, OneHistory, NoneNewer
<1> QED BY <1>1, ReportInvariance, PTL

(* No row of a confirmed report changes: not by an upload, a correction,   *)
(* nor by an extraction that is still under way.                           *)
THEOREM ConfirmedNeverChanges == ReportSpec => ConfirmedIsImmutable
<1>1. ASSUME ReportNext, status = "CONFIRMED" PROVE UNCHANGED rows
    BY <1>1
       DEF ReportNext, Work, Create, CreateLabReport, RetryFailedLabReport, Rescue, Correct,
           Correctable, Confirm, Fetch, Begin, Extracting, Parse, Persist, Late, Fail,
           FailLabReport, ReturnError, Return, PersistUnacknowledged, StatementFails,
           Crash, rows
<1>2. [ReportNext]_reportVars => [status = "CONFIRMED" => UNCHANGED rows]_reportVars
    BY <1>1 DEF reportVars
<1> QED BY <1>2, PTL DEF ReportSpec, ConfirmedIsImmutable

(* No step goes back to an earlier version: Persist stores version 1 only  *)
(* where there is none.                                                    *)
THEOREM CorrectionsNeverLost == ReportSpec => CorrectionsStay
<1>1. ASSUME ReportInv, ReportNext PROVE current' >= current
  <2>0. current \in Nat BY <1>1 DEF ReportInv, ReportTypeOK
  <2>1. ASSUME NEW w \in Workers, Persist(w) \/ PersistUnacknowledged(w)
        PROVE  current' >= current
    <3>1. Free(1) => current = 0
        BY <1>1, FreeMeansNone DEF ReportInv, RowsInv, RowsTyped, ReportTypeOK
    <3> QED
        BY <2>0, <2>1, <3>1 DEF Persist, PersistUnacknowledged, StoreDraft,
           CompleteLabReportExtraction, rows
  <2>2. ASSUME NEW gappy \in BOOLEAN, Correct(gappy) PROVE current' >= current
      BY <2>0, <2>2 DEF Correct, CompleteLabReportExtraction
  <2>3. ASSUME UNCHANGED current PROVE current' >= current
      BY <2>0, <2>3
  <2> QED
      BY <1>1, <2>1, <2>2, <2>3
         DEF ReportNext, Work, Create, Rescue, Confirm, Fetch, Begin, Parse, Fail,
             ReturnError, Return, StatementFails, Crash, rows
<1>2. ReportInv /\ [ReportNext]_reportVars => [current' >= current]_reportVars
    BY <1>1 DEF reportVars
<1> QED BY <1>2, ReportInvariance, PTL DEF ReportSpec, CorrectionsStay

-----------------------------------------------------------------------------
(***************************************************************************)
(* Loops and sums.  Induction over a number is over a set of numbers, as   *)
(* the least one that is missing from it.                                  *)
(***************************************************************************)

(* The order of the naturals goes down finitely often.                     *)
LEMMA LessThanIsWellFounded ==
    \E R : IsWellFoundedOn(R, Nat) /\ \A x, y \in Nat : y < x => <<y, x>> \in R
<1>1. IsWellFoundedOn(OpToRel(<, Nat), Nat) BY NatLessThanWellFounded, Zenon
<1>2. \A x, y \in Nat : y < x => <<y, x>> \in OpToRel(<, Nat) BY DEF OpToRel
<1> QED BY <1>1, <1>2, Zenon

(* A set of naturals that is not empty has a least one.                    *)
LEMMA LeastNatural ==
    ASSUME NEW T \in SUBSET Nat, T # {}
    PROVE  \E x \in T : \A y \in T : x <= y
<1>1. \A t \in T : t \in Nat OBVIOUS
<1>2. PICK R : IsWellFoundedOn(R, Nat) /\ \A x, y \in Nat : y < x => <<y, x>> \in R
    BY LessThanIsWellFounded
<1>3. PICK x \in T : \A y \in T : ~ (<<y, x>> \in R) BY <1>2, WFMin
<1>4. ASSUME NEW y \in T PROVE x <= y
  <2>1. x \in Nat /\ y \in Nat BY <1>1
  <2>2. ~ (y < x) BY <1>2, <1>3, <2>1, Zenon
  <2> QED BY <2>1, <2>2
<1> QED BY <1>4

(* Induction up to n, over a set of naturals. *)
LEMMA UpTo ==
    ASSUME NEW n \in Nat, NEW P, 0 \in P, \A i \in 1..n : i - 1 \in P => i \in P
    PROVE  \A i \in 0..n : i \in P
<1> DEFINE T == {i \in 0..n : i \notin P}
<1> SUFFICES ASSUME T # {} PROVE FALSE OBVIOUS
<1>1. PICK m \in T : \A k \in T : m <= k
  <2>1. T \in SUBSET Nat OBVIOUS
  <2> HIDE DEF T
  <2> QED BY <2>1, LeastNatural
<1>2. m \in 0..n /\ m \notin P OBVIOUS
<1>3. m # 0 BY <1>2
<1>4. m - 1 \in 0..n /\ m - 1 \notin T BY <1>1, <1>2, <1>3
<1>5. m - 1 \in P BY <1>4
<1>6. m \in 1..n BY <1>2, <1>3
<1> QED BY <1>2, <1>5, <1>6

(* A loop of n rounds: what it computes is there, and typed. *)
Rounds(f, n, a, G) == f = [i \in 0..n |-> IF i = 0 THEN a ELSE G[<<i, f[i - 1]>>]]

(* Such a loop exists when each round stays in S.                          *)
LEMMA RoundsOf ==
    ASSUME NEW n \in Nat, NEW S, NEW a \in S, NEW G \in [(1..n) \X S -> S]
    PROVE  \E f \in [0..n -> S] : Rounds(f, n, a, G)
<1> DEFINE P == {m \in 0..n : \E f \in [0..m -> S] : Rounds(f, m, a, G)}
<1>1. 0 \in P
  <2> DEFINE f == [i \in 0..0 |-> a]
  <2>1. f \in [0..0 -> S] OBVIOUS
  <2>2. f = [i \in 0..0 |-> IF i = 0 THEN a ELSE G[<<i, f[i - 1]>>]] OBVIOUS
  <2> HIDE DEF f
  <2>3. Rounds(f, 0, a, G) BY <2>2 DEF Rounds
  <2>4. 0 \in 0..n OBVIOUS
  <2> QED BY <2>1, <2>3, <2>4
<1>2. ASSUME NEW m \in 1..n, m - 1 \in P PROVE m \in P
  <2>1. PICK f \in [0..(m - 1) -> S] : Rounds(f, m - 1, a, G) BY <1>2
  <2>2. m \in 0..n /\ m - 1 \in 0..(m - 1) /\ m \notin 0..(m - 1) OBVIOUS
  <2>3. G[<<m, f[m - 1]>>] \in S
    <3>1. f[m - 1] \in S BY <2>2
    <3> QED BY <3>1
  <2> DEFINE g == [i \in 0..m |-> IF i = m THEN G[<<m, f[m - 1]>>] ELSE f[i]]
  <2>4. \A i \in 0..m : i # m => i \in 0..(m - 1) OBVIOUS
  <2>5. g \in [0..m -> S] BY <2>3, <2>4
  <2>6. \A i \in 0..m : g[i] = IF i = 0 THEN a ELSE G[<<i, g[i - 1]>>]
    <3> TAKE i \in 0..m
    <3>1. CASE i = m
      <4>1. g[m] = G[<<m, f[m - 1]>>] OBVIOUS
      <4>2. g[m - 1] = f[m - 1] BY <2>2
      <4>3. m # 0 OBVIOUS
      <4> HIDE DEF g
      <4> QED BY <3>1, <4>1, <4>2, <4>3
    <3>2. CASE i # m
      <4>1. i \in 0..(m - 1) /\ g[i] = f[i] BY <3>2
      <4>2. f[i] = IF i = 0 THEN a ELSE G[<<i, f[i - 1]>>] BY <2>1, <4>1 DEF Rounds
      <4>3. i # 0 => i - 1 \in 0..m /\ i - 1 # m BY <4>1
      <4>4. i # 0 => g[i - 1] = f[i - 1] BY <4>3
      <4> QED BY <4>1, <4>2, <4>4
    <3> QED BY <3>1, <3>2
  <2>7. Rounds(g, m, a, G)
    <3>1. g = [i \in 0..m |-> g[i]] OBVIOUS
    <3>2. [i \in 0..m |-> g[i]] = [i \in 0..m |-> IF i = 0 THEN a ELSE G[<<i, g[i - 1]>>]]
        BY <2>6
    <3> HIDE DEF g
    <3> QED BY <3>1, <3>2 DEF Rounds
  <2> HIDE DEF g
  <2> QED BY <2>2, <2>5, <2>7
<1>3. \A i \in 0..n : i \in P
  <2> HIDE DEF P
  <2> QED BY <1>1, <1>2, UpTo
<1>4. n \in P BY <1>3
<1> QED BY <1>4

(* The sum of the dry tons of allocations. *)
SumTo(f, s) == f = [i \in 0..Len(s) |-> IF i = 0 THEN 0 ELSE f[i - 1] + s[i].dryTons]
Tonned(s) == \A k \in 1..Len(s) : s[k].dryTons \in Nat

(* Total is that sum: the function it is defined with exists.              *)
LEMMA TotalIsSum ==
    ASSUME NEW s, Len(s) \in Nat, Tonned(s)
    PROVE  \E f \in [0..Len(s) -> Nat] : SumTo(f, s) /\ Total(s) = f[Len(s)]
<1> DEFINE n == Len(s)
           G == [p \in (1..n) \X Nat |-> p[2] + s[p[1]].dryTons]
           c == CHOOSE f : SumTo(f, s)
<1>1. \E f : SumTo(f, s)
  <2>1. G \in [(1..n) \X Nat -> Nat] BY DEF Tonned
  <2>2. \A i \in 1..n, x \in Nat : G[<<i, x>>] = x + s[i].dryTons OBVIOUS
  <2> HIDE DEF G, n
  <2>3. n \in Nat /\ 0 \in Nat BY DEF n
  <2>4. PICK f \in [0..n -> Nat] : Rounds(f, n, 0, G) BY <2>1, <2>3, RoundsOf
  <2>5. \A i \in 0..n : i # 0 => i \in 1..n /\ f[i - 1] \in Nat BY <2>3
  <2>6. \A i \in 0..n : (IF i = 0 THEN 0 ELSE G[<<i, f[i - 1]>>])
                          = (IF i = 0 THEN 0 ELSE f[i - 1] + s[i].dryTons)
      BY <2>2, <2>5
  <2>7. SumTo(f, s) BY <2>4, <2>6 DEF SumTo, Rounds, n
  <2> QED BY <2>7
<1>2. SumTo(c, s) BY <1>1
<1>3. Total(s) = c[n] BY DEF Total, SumTo
<1> HIDE DEF c, G
<1>4. \A i \in 0..n : c[i] \in Nat
  <2> DEFINE P == {i \in 0..n : c[i] \in Nat}
  <2>1. 0 \in P BY <1>2 DEF SumTo
  <2>2. ASSUME NEW i \in 1..n, i - 1 \in P PROVE i \in P
    <3>1. c[i] = c[i - 1] + s[i].dryTons BY <1>2 DEF SumTo
    <3>2. s[i].dryTons \in Nat BY DEF Tonned
    <3> QED BY <2>2, <3>1, <3>2
  <2>3. \A i \in 0..n : i \in P
    <3> HIDE DEF P
    <3> QED BY <2>1, <2>2, UpTo
  <2> QED BY <2>3
<1>5. c \in [0..n -> Nat]
  <2>1. c = [i \in 0..n |-> c[i]] BY <1>2 DEF SumTo
  <2> QED BY <1>4, <2>1
<1> QED BY <1>2, <1>3, <1>5

(* An empty list sums to nothing.                                          *)
LEMMA TotalOfNothing == Total(<<>>) = 0
<1>1. Len(<<>>) = 0 /\ Tonned(<<>>) BY DEF Tonned
<1>2. PICK f \in [0..0 -> Nat] : SumTo(f, <<>>) /\ Total(<<>>) = f[0]
    BY <1>1, TotalIsSum
<1> QED BY <1>1, <1>2 DEF SumTo

(* A further allocation adds its dry tons.                                 *)
LEMMA TotalOfAppend ==
    ASSUME NEW R, NEW s \in Seq(R), NEW x \in R, \A y \in R : y.dryTons \in Nat
    PROVE  Total(s) \in Nat /\ Total(Append(s, x)) = Total(s) + x.dryTons
<1> DEFINE t == Append(s, x)
           n == Len(s)
<1>1. n \in Nat /\ Len(t) = n + 1 /\ t[n + 1] = x /\ \A i \in 1..n : t[i] = s[i]
    OBVIOUS
<1>2. Tonned(s) /\ Tonned(t)
  <2>1. t \in Seq(R) OBVIOUS
  <2> HIDE DEF t
  <2>2. ASSUME NEW r \in Seq(R) PROVE Tonned(r)
    <3>1. \A k \in 1..Len(r) : r[k] \in R OBVIOUS
    <3> QED BY <3>1 DEF Tonned
  <2> QED BY <2>1, <2>2
<1> HIDE DEF t, n
<1>3. PICK f \in [0..n -> Nat] : SumTo(f, s) /\ Total(s) = f[n]
    BY <1>1, <1>2, TotalIsSum DEF n
<1>4. PICK g \in [0..(n + 1) -> Nat] : SumTo(g, t) /\ Total(t) = g[n + 1]
  <2>1. Len(t) \in Nat BY <1>1
  <2>2. \E g \in [0..Len(t) -> Nat] : SumTo(g, t) /\ Total(t) = g[Len(t)]
      BY <1>2, <2>1, TotalIsSum
  <2> QED BY <1>1, <2>2
<1>5. \A i \in 0..n : f[i] = g[i]
  <2> DEFINE P == {i \in 0..n : f[i] = g[i]}
  <2>1. f[0] = 0 /\ g[0] = 0 BY <1>1, <1>3, <1>4 DEF SumTo
  <2>2. ASSUME NEW i \in 1..n, i - 1 \in P PROVE i \in P
    <3>1. f[i] = f[i - 1] + s[i].dryTons BY <1>1, <1>3 DEF SumTo, n
    <3>2. g[i] = g[i - 1] + t[i].dryTons
      <4>1. i \in 0..(n + 1) /\ i # 0 /\ Len(t) = n + 1 BY <1>1
      <4> QED BY <1>4, <4>1 DEF SumTo
    <3>3. t[i] = s[i] BY <1>1
    <3> QED BY <2>2, <3>1, <3>2, <3>3
  <2>3. \A i \in 0..n : i \in P
    <3>1. 0 \in P BY <1>1, <2>1
    <3> HIDE DEF P
    <3> QED BY <1>1, <2>2, <3>1, UpTo
  <2> QED BY <2>3
<1>6. g[n + 1] = g[n] + t[n + 1].dryTons BY <1>1, <1>4 DEF SumTo
<1>7. Total(t) = Total(s) + x.dryTons BY <1>1, <1>3, <1>4, <1>5, <1>6
<1>8. Total(s) \in Nat BY <1>1, <1>3
<1> QED BY <1>7, <1>8 DEF t

-----------------------------------------------------------------------------
(***************************************************************************)
(* The ranking: rankFields sorts the fields by their ranks.                *)
(***************************************************************************)

(* The order of the ranks. *)
Smaller(r, s, i) == r[i] < s[i] /\ \A j \in 1..(i - 1) : r[j] = s[j]

(* The rank that differs first, place by place.                            *)
LEMMA SmallerAt ==
    ASSUME NEW r, NEW s
    PROVE  /\ Smaller(r, s, 1) <=> r[1] < s[1]
           /\ Smaller(r, s, 2) <=> r[1] = s[1] /\ r[2] < s[2]
           /\ Smaller(r, s, 3) <=> r[1] = s[1] /\ r[2] = s[2] /\ r[3] < s[3]
           /\ Smaller(r, s, 4) <=> r[1] = s[1] /\ r[2] = s[2] /\ r[3] = s[3] /\ r[4] < s[4]
           /\ Smaller(r, s, 5) <=> r[1] = s[1] /\ r[2] = s[2] /\ r[3] = s[3] /\ r[4] = s[4]
                                     /\ r[5] < s[5]
           /\ Smaller(r, s, 6) <=> r[1] = s[1] /\ r[2] = s[2] /\ r[3] = s[3] /\ r[4] = s[4]
                                     /\ r[5] = s[5] /\ r[6] < s[6]
           /\ Smaller(r, s, 7) <=> r[1] = s[1] /\ r[2] = s[2] /\ r[3] = s[3] /\ r[4] = s[4]
                                     /\ r[5] = s[5] /\ r[6] = s[6] /\ r[7] < s[7]
<1>1. /\ \A j : j \in 1..0 <=> FALSE
      /\ \A j : j \in 1..1 <=> j = 1
      /\ \A j : j \in 1..2 <=> j = 1 \/ j = 2
      /\ \A j : j \in 1..3 <=> j = 1 \/ j = 2 \/ j = 3
      /\ \A j : j \in 1..4 <=> j = 1 \/ j = 2 \/ j = 3 \/ j = 4
      /\ \A j : j \in 1..5 <=> j = 1 \/ j = 2 \/ j = 3 \/ j = 4 \/ j = 5
      /\ \A j : j \in 1..6 <=> j = 1 \/ j = 2 \/ j = 3 \/ j = 4 \/ j = 5 \/ j = 6
    OBVIOUS
<1>2. 1 - 1 = 0 /\ 2 - 1 = 1 /\ 3 - 1 = 2 /\ 4 - 1 = 3 /\ 5 - 1 = 4 /\ 6 - 1 = 5 /\ 7 - 1 = 6
    OBVIOUS
<1> QED BY <1>1, <1>2, ZenonT(30) DEF Smaller

(* Before compares ranks by the first place they differ at.                *)
LEMMA BeforeIsSmaller ==
    ASSUME NEW f, NEW g
    PROVE  LET r == Rank(f)
               s == Rank(g)
           IN  Before(f, g) <=> \/ Smaller(r, s, 1) \/ Smaller(r, s, 2) \/ Smaller(r, s, 3)
                                \/ Smaller(r, s, 4) \/ Smaller(r, s, 5) \/ Smaller(r, s, 6)
                                \/ Smaller(r, s, 7)
<1>1. DOMAIN Rank(f) = 1..7 BY DEF Rank
<1> DEFINE r == Rank(f)
           s == Rank(g)
<1> HIDE DEF r, s
<1>2. Before(f, g) <=> \E i \in 1..7 : Smaller(r, s, i)
    BY <1>1 DEF Before, Smaller, r, s
<1>3. \A i : i \in 1..7 <=> i = 1 \/ i = 2 \/ i = 3 \/ i = 4 \/ i = 5 \/ i = 6 \/ i = 7
    OBVIOUS
<1>4. (\E i \in 1..7 : Smaller(r, s, i)) <=>
        \/ Smaller(r, s, 1) \/ Smaller(r, s, 2) \/ Smaller(r, s, 3) \/ Smaller(r, s, 4)
        \/ Smaller(r, s, 5) \/ Smaller(r, s, 6) \/ Smaller(r, s, 7)
    BY <1>3, Zenon
<1> QED BY <1>2, <1>4 DEF r, s

(* Ranks that differ in their last component are ordered, one way only.    *)
LEMMA RanksOrder ==
    ASSUME NEW f, NEW g, NEW h,
           \A i \in 1..7 : Rank(f)[i] \in Int /\ Rank(g)[i] \in Int /\ Rank(h)[i] \in Int
    PROVE  /\ ~Before(f, f)
           /\ Before(f, g) /\ Before(g, h) => Before(f, h)
           /\ Rank(f)[7] # Rank(g)[7] => Before(f, g) \/ Before(g, f)
<1> DEFINE r == Rank(f)
           s == Rank(g)
           t == Rank(h)
<1>1. /\ r[1] \in Int /\ r[2] \in Int /\ r[3] \in Int /\ r[4] \in Int
      /\ r[5] \in Int /\ r[6] \in Int /\ r[7] \in Int
      /\ s[1] \in Int /\ s[2] \in Int /\ s[3] \in Int /\ s[4] \in Int
      /\ s[5] \in Int /\ s[6] \in Int /\ s[7] \in Int
      /\ t[1] \in Int /\ t[2] \in Int /\ t[3] \in Int /\ t[4] \in Int
      /\ t[5] \in Int /\ t[6] \in Int /\ t[7] \in Int
    OBVIOUS
<1> HIDE DEF r, s, t
<1>2. ~Before(f, f) BY <1>1, BeforeIsSmaller, SmallerAt DEF r
<1>3. Before(f, g) /\ Before(g, h) => Before(f, h) BY <1>1, BeforeIsSmaller, SmallerAt DEF r, s, t
<1>4. r[7] # s[7] => Before(f, g) \/ Before(g, f) BY <1>1, BeforeIsSmaller, SmallerAt DEF r, s
<1> QED BY <1>2, <1>3, <1>4 DEF r, s

(* Fields whose ranks are numbers, and differ in the last of them.         *)
Comparable(fs, n) ==
    /\ \A i \in 1..n : \A m \in 1..7 : Rank(fs[i])[m] \in Int
    /\ \A i, j \in 1..n : i # j => Rank(fs[i])[7] # Rank(fs[j])[7]

(* The fields that come before field i.                                    *)
Ahead(fs, i) == {j \in DOMAIN fs : Before(fs[j], fs[i])}

(* The number of fields ahead of each is a place in the list, and one that *)
(* comes later has more of them.                                           *)
LEMMA AheadOfEach ==
    ASSUME NEW n \in Nat, NEW fs, DOMAIN fs = 1..n, Comparable(fs, n)
    PROVE  /\ \A i \in 1..n : /\ IsFiniteSet(Ahead(fs, i))
                              /\ 1 + Cardinality(Ahead(fs, i)) \in 1..n
           /\ \A i, j \in 1..n : Before(fs[i], fs[j]) =>
                  Cardinality(Ahead(fs, i)) < Cardinality(Ahead(fs, j))
           /\ \A i, j \in 1..n : i # j => Before(fs[i], fs[j]) \/ Before(fs[j], fs[i])
<1>1. ASSUME NEW i \in 1..n, NEW j \in 1..n, NEW k \in 1..n
      PROVE  /\ ~Before(fs[i], fs[i])
             /\ Before(fs[i], fs[j]) /\ Before(fs[j], fs[k]) => Before(fs[i], fs[k])
             /\ i # j => Before(fs[i], fs[j]) \/ Before(fs[j], fs[i])
  <2>1. \A m \in 1..7 : Rank(fs[i])[m] \in Int /\ Rank(fs[j])[m] \in Int /\ Rank(fs[k])[m] \in Int
      BY DEF Comparable
  <2>2. i # j => Rank(fs[i])[7] # Rank(fs[j])[7] BY DEF Comparable
  <2>3. /\ ~Before(fs[i], fs[i])
        /\ Before(fs[i], fs[j]) /\ Before(fs[j], fs[k]) => Before(fs[i], fs[k])
        /\ Rank(fs[i])[7] # Rank(fs[j])[7] => Before(fs[i], fs[j]) \/ Before(fs[j], fs[i])
      BY <2>1, RanksOrder
  <2> QED BY <2>2, <2>3
<1>2. IsFiniteSet(1..n) /\ Cardinality(1..n) = n BY FS_Interval
<1>3. ASSUME NEW i \in 1..n
      PROVE  /\ Ahead(fs, i) \in SUBSET (1..n) /\ i \notin Ahead(fs, i)
             /\ IsFiniteSet(Ahead(fs, i)) /\ Cardinality(Ahead(fs, i)) \in Nat
  <2>1. Ahead(fs, i) \in SUBSET (1..n) /\ i \notin Ahead(fs, i) BY <1>1 DEF Ahead
  <2>2. IsFiniteSet(Ahead(fs, i)) BY <1>2, <2>1, FS_Subset
  <2> QED BY <2>1, <2>2, FS_CardinalityType
<1>4. ASSUME NEW i \in 1..n PROVE 1 + Cardinality(Ahead(fs, i)) \in 1..n
  <2>1. IsFiniteSet(Ahead(fs, i) \cup {i})
        /\ Cardinality(Ahead(fs, i) \cup {i}) = Cardinality(Ahead(fs, i)) + 1
      BY <1>3, FS_AddElement
  <2>2. Ahead(fs, i) \cup {i} \in SUBSET (1..n) BY <1>3
  <2>3. Cardinality(Ahead(fs, i) \cup {i}) <= n BY <1>2, <2>2, FS_Subset
  <2> QED BY <1>3, <2>1, <2>3
<1>5. ASSUME NEW i \in 1..n, NEW j \in 1..n, Before(fs[i], fs[j])
      PROVE  Cardinality(Ahead(fs, i)) < Cardinality(Ahead(fs, j))
  <2>1. Cardinality(Ahead(fs, i) \cup {i}) = Cardinality(Ahead(fs, i)) + 1
      BY <1>3, FS_AddElement
  <2>2. Ahead(fs, i) \cup {i} \in SUBSET Ahead(fs, j) BY <1>1, <1>3, <1>5 DEF Ahead
  <2>3. Cardinality(Ahead(fs, i) \cup {i}) <= Cardinality(Ahead(fs, j))
      BY <1>3, <2>2, FS_Subset
  <2>4. Cardinality(Ahead(fs, i)) \in Nat /\ Cardinality(Ahead(fs, j)) \in Nat BY <1>3
  <2> QED BY <2>1, <2>3, <2>4
<1> QED BY <1>1, <1>3, <1>4, <1>5

(* rankFields sorts: it lists each field once, and each before the next.   *)
LEMMA RankFieldsSorts ==
    ASSUME NEW n \in Nat, NEW fs, DOMAIN fs = 1..n, Comparable(fs, n)
    PROVE  \E at \in [1..n -> 1..n] :
             /\ rankFields(fs) = [k \in 1..n |-> fs[at[k]]]
             /\ \A k, l \in 1..n : at[k] = at[l] => k = l
             /\ \A k, l \in 1..n : k < l => Before(fs[at[k]], fs[at[l]])
<1> DEFINE place(i) == 1 + Cardinality(Ahead(fs, i))
           p == [i \in 1..n |-> place(i)]
<1>1. \A i \in 1..n : place(i) \in 1..n BY AheadOfEach
<1>2. \A i, j \in 1..n : i # j => Before(fs[i], fs[j]) \/ Before(fs[j], fs[i])
    BY AheadOfEach
<1>3. \A i, j \in 1..n : Before(fs[i], fs[j]) => place(i) < place(j)
  <2> TAKE i \in 1..n, j \in 1..n
  <2>1. Before(fs[i], fs[j]) => Cardinality(Ahead(fs, i)) < Cardinality(Ahead(fs, j))
      BY AheadOfEach
  <2>2. place(i) \in Int /\ place(j) \in Int BY <1>1
  <2>3. Cardinality(Ahead(fs, i)) \in Nat /\ Cardinality(Ahead(fs, j)) \in Nat
      BY AheadOfEach, FS_CardinalityType
  <2> QED BY <2>1, <2>3
<1>4. rankFields(fs) = [k \in 1..n |-> fs[CHOOSE i \in 1..n : place(i) = k]]
    BY DEF rankFields, Ahead
<1> HIDE DEF place
<1>5. \A i, j \in 1..n : place(i) = place(j) => i = j
  <2> TAKE i \in 1..n, j \in 1..n
  <2>1. place(i) \in Int /\ place(j) \in Int BY <1>1
  <2> QED BY <1>2, <1>3, <2>1
<1>6. p \in [1..n -> 1..n] /\ \A i \in 1..n : p[i] = place(i) BY <1>1
<1> HIDE DEF p
<1>7. p \in Injection(1..n, 1..n) BY <1>5, <1>6 DEF Injection, IsInjective
<1>8. p \in Surjection(1..n, 1..n)
  <2>1. IsFiniteSet(1..n) BY FS_Interval
  <2> QED BY <1>7, <2>1, FS_Injection
<1>9. \A k \in 1..n : \E i \in 1..n : place(i) = k BY <1>6, <1>8 DEF Surjection
<1> DEFINE at == [k \in 1..n |-> CHOOSE i \in 1..n : place(i) = k]
<1>10. \A k \in 1..n : at[k] \in 1..n /\ place(at[k]) = k BY <1>9
<1>11. at \in [1..n -> 1..n] BY <1>10
<1>12. rankFields(fs) = [k \in 1..n |-> fs[at[k]]] BY <1>4
<1> HIDE DEF at
<1>13. \A k, l \in 1..n : at[k] = at[l] => k = l BY <1>10
<1>14. ASSUME NEW k \in 1..n, NEW l \in 1..n, k < l PROVE Before(fs[at[k]], fs[at[l]])
  <2>1. at[k] \in 1..n /\ at[l] \in 1..n /\ place(at[k]) = k /\ place(at[l]) = l BY <1>10
  <2>2. at[k] # at[l] BY <1>13, <1>14
  <2>3. CASE Before(fs[at[l]], fs[at[k]])
    <3>1. place(at[l]) < place(at[k]) BY <1>3, <2>1, <2>3
    <3> QED BY <1>14, <2>1, <3>1
  <2> QED BY <1>2, <2>1, <2>2, <2>3
<1> QED BY <1>11, <1>12, <1>13, <1>14

-----------------------------------------------------------------------------
(***************************************************************************)
(* Rounding: what formatRat makes of a ratio.                              *)
(***************************************************************************)

(* Division rounds down.                                                   *)
LEMMA Quotient ==
    ASSUME NEW a \in Nat, NEW b \in Nat, b > 0
    PROVE  a \div b \in Nat /\ b * (a \div b) <= a
<1> DEFINE q == a \div b
           r == a % b
<1>1. q \in Int /\ r \in Nat BY SMT
<1>2. a = b * q + r BY SMT
<1> QED BY <1>1, <1>2, SMT

(* formatRat rounds half a unit up at the most.                            *)
LEMMA Formatted ==
    ASSUME NEW num \in Nat, NEW den \in Nat \ {0}
    PROVE  formatRat(num, den) \in Nat /\ 2 * den * formatRat(num, den) <= 2 * num + den
<1>1. 2 * num + den \in Nat /\ 2 * den \in Nat /\ 2 * den > 0 OBVIOUS
<1> DEFINE a == 2 * num + den
           b == 2 * den
<1> HIDE DEF a, b
<1>2. a \in Nat /\ b \in Nat /\ b > 0 BY <1>1 DEF a, b
<1>3. a \div b \in Nat /\ b * (a \div b) <= a BY <1>2, Quotient
<1> QED BY <1>3 DEF a, b, formatRat

-----------------------------------------------------------------------------
(***************************************************************************)
(* The allocation: what the loop over the ranked fields leaves and gives.  *)
(***************************************************************************)

(* What is left of the batch after each field: the loop, and its values.   *)
LeftTo(f, fs, batch) ==
    f = [i \in 0..Len(fs) |-> IF i = 0 THEN batch ELSE f[i - 1] - Takes(fs[i], f[i - 1])]

Falls(left, fs, n, batch) ==
    /\ left \in [0..n -> Nat]
    /\ left[0] = batch
    /\ \A i \in 1..n : left[i] = left[i - 1] - Takes(fs[i], left[i - 1])

(* A field takes at most what is left and at most its capacity.            *)
LEMMA TakesSome ==
    ASSUME NEW f, f.capacity \in Nat, NEW x \in Nat
    PROVE  Takes(f, x) \in Nat /\ Takes(f, x) <= x /\ Takes(f, x) <= f.capacity
BY DEF Takes, minRat

(* Remaining is what the loop leaves, and never negative.                  *)
LEMMA RemainingFalls ==
    ASSUME NEW n \in Nat, NEW fs, Len(fs) = n, \A i \in 1..n : fs[i].capacity \in Nat,
           NEW batch \in Nat
    PROVE  Falls(Remaining(fs, batch), fs, n, batch)
<1> DEFINE G == [p \in (1..n) \X Nat |-> p[2] - Takes(fs[p[1]], p[2])]
           c == CHOOSE f : LeftTo(f, fs, batch)
<1>1. \A i \in 1..n, x \in Nat : x - Takes(fs[i], x) \in Nat BY TakesSome
<1>2. \E f : LeftTo(f, fs, batch)
  <2>1. G \in [(1..n) \X Nat -> Nat] BY <1>1
  <2>2. \A i \in 1..n, x \in Nat : G[<<i, x>>] = x - Takes(fs[i], x) OBVIOUS
  <2> HIDE DEF G
  <2>3. PICK f \in [0..n -> Nat] : Rounds(f, n, batch, G) BY <2>1, RoundsOf
  <2>4. \A i \in 0..n : i # 0 => i \in 1..n /\ f[i - 1] \in Nat OBVIOUS
  <2>5. \A i \in 0..n : (IF i = 0 THEN batch ELSE G[<<i, f[i - 1]>>])
                          = (IF i = 0 THEN batch ELSE f[i - 1] - Takes(fs[i], f[i - 1]))
      BY <2>2, <2>4
  <2>6. LeftTo(f, fs, batch) BY <2>3, <2>5 DEF LeftTo, Rounds
  <2> QED BY <2>6
<1>3. LeftTo(c, fs, batch) BY <1>2
<1>4. Remaining(fs, batch) = c BY DEF Remaining, LeftTo
<1> HIDE DEF c
<1>5. \A i \in 1..n : c[i] = c[i - 1] - Takes(fs[i], c[i - 1])
  <2> TAKE i \in 1..n
  <2>1. i \in 0..n /\ i # 0 OBVIOUS
  <2> QED BY <1>3, <2>1 DEF LeftTo
<1>6. c[0] = batch BY <1>3 DEF LeftTo
<1>7. \A i \in 0..n : c[i] \in Nat
  <2> DEFINE P == {i \in 0..n : c[i] \in Nat}
  <2>1. 0 \in P BY <1>6
  <2>2. ASSUME NEW i \in 1..n, i - 1 \in P PROVE i \in P
    <3>1. c[i - 1] \in Nat BY <2>2
    <3>2. c[i - 1] - Takes(fs[i], c[i - 1]) \in Nat BY <1>1, <3>1
    <3>3. c[i] \in Nat BY <1>5, <3>2
    <3> QED BY <3>3
  <2>3. \A i \in 0..n : i \in P
    <3> HIDE DEF P
    <3> QED BY <2>1, <2>2, UpTo
  <2> QED BY <2>3
<1>8. c \in [0..n -> Nat]
  <2>1. c = [i \in 0..n |-> c[i]] BY <1>3 DEF LeftTo
  <2> QED BY <1>7, <2>1
<1> QED BY <1>4, <1>5, <1>6, <1>8 DEF Falls

(* What field i is given; the allocations after its turn; and all turns.   *)
Given(fs, left, i) == Allocation(fs[i], left[i - 1] - left[i])
OneRow(fs, left, taken, i) ==
    IF left[i] < left[i - 1]
    THEN Append(taken, Allocation(fs[i], left[i - 1] - left[i])) ELSE taken
RowsTo(f, fs, left) ==
    f = [i \in 0..Len(fs) |-> IF i = 0 THEN <<>> ELSE OneRow(fs, left, f[i - 1], i)]

(* What is allocated when the first m fields had their turn. *)
AllocatedTo(a, fs, left, m) ==
    /\ \A k \in 1..Len(a) : \E i \in 1..m : left[i] < left[i - 1] /\ a[k] = Given(fs, left, i)
    /\ \A i \in 1..m : left[i] < left[i - 1] => \E k \in 1..Len(a) : a[k] = Given(fs, left, i)
    /\ \A k, l \in 1..Len(a) : a[k].field = a[l].field => k = l
    /\ Total(a) = left[0] - left[m]

(* An allocation names its field, its evaluation and its rate.             *)
LEMMA GivenFields ==
    ASSUME NEW fs, NEW left, NEW i
    PROVE  /\ Given(fs, left, i).field = fs[i].field
           /\ Given(fs, left, i).dryTons = left[i - 1] - left[i]
           /\ Given(fs, left, i).evaluation = fs[i].evaluation
           /\ Given(fs, left, i).rate = fs[i].rate
BY DEF Given, Allocation

(* The next turn keeps what is known of the allocations before it.         *)
LEMMA NextRow ==
    ASSUME NEW n \in Nat, NEW fs, \A i, j \in 1..n : fs[i].field = fs[j].field => i = j,
           NEW left \in [0..n -> Nat], NEW m \in 1..n, left[m] <= left[m - 1],
           NEW R, R = {Given(fs, left, i) : i \in 1..n}, NEW a \in Seq(R),
           \A i \in 1..n : left[i] <= left[i - 1],
           AllocatedTo(a, fs, left, m - 1)
    PROVE  /\ OneRow(fs, left, a, m) \in Seq(R)
           /\ AllocatedTo(OneRow(fs, left, a, m), fs, left, m)
<1>0. m - 1 \in 0..n /\ m \in 0..n /\ 0 \in 0..n /\ \A i \in 1..m : i # m => i \in 1..(m - 1)
    OBVIOUS
<1>1. left[m] \in Nat /\ left[m - 1] \in Nat /\ left[0] \in Nat BY <1>0
<1>2. CASE ~(left[m] < left[m - 1])
  <2>1. OneRow(fs, left, a, m) = a BY <1>2 DEF OneRow
  <2>2. left[m] = left[m - 1] BY <1>1, <1>2
  <2>3. \A i \in 1..m : left[i] < left[i - 1] => i \in 1..(m - 1) BY <1>2
  <2>4. \A i \in 1..(m - 1) : i \in 1..m OBVIOUS
  <2>5. \A k \in 1..Len(a) : \E i \in 1..m : left[i] < left[i - 1] /\ a[k] = Given(fs, left, i)
    <3> TAKE k \in 1..Len(a)
    <3>1. PICK i \in 1..(m - 1) : left[i] < left[i - 1] /\ a[k] = Given(fs, left, i)
        BY DEF AllocatedTo
    <3> QED BY <2>4, <3>1
  <2>6. ASSUME NEW i \in 1..m, left[i] < left[i - 1]
        PROVE  \E k \in 1..Len(a) : a[k] = Given(fs, left, i)
    <3>1. i \in 1..(m - 1) BY <2>3, <2>6
    <3> QED BY <2>6, <3>1 DEF AllocatedTo
  <2>7. /\ \A k, l \in 1..Len(a) : a[k].field = a[l].field => k = l
        /\ Total(a) = left[0] - left[m]
      BY <2>2 DEF AllocatedTo
  <2>8. AllocatedTo(a, fs, left, m) BY <2>5, <2>6, <2>7 DEF AllocatedTo
  <2> QED BY <2>1, <2>8
<1>3. CASE left[m] < left[m - 1]
  <2> DEFINE x == Given(fs, left, m)
             b == Append(a, x)
             z == Len(a)
  <2>1. OneRow(fs, left, a, m) = b BY <1>3 DEF OneRow, Given
  <2>2. x \in R OBVIOUS
  <2>3. x.field = fs[m].field /\ x.dryTons = left[m - 1] - left[m] BY DEF Given, Allocation
  <2>4. \A y \in R : y.dryTons \in Nat
    <3> TAKE y \in R
    <3>1. PICK i \in 1..n : y = Given(fs, left, i) OBVIOUS
    <3>2. i - 1 \in 0..n /\ i \in 0..n OBVIOUS
    <3>3. left[i] \in Nat /\ left[i - 1] \in Nat /\ left[i] <= left[i - 1] BY <3>2
    <3>4. left[i - 1] - left[i] \in Nat BY <3>3, SMTT(30)
    <3>5. Given(fs, left, i).dryTons = left[i - 1] - left[i] BY DEF Given, Allocation
    <3> QED BY <3>1, <3>4, <3>5
  <2> HIDE DEF x
  <2>5. /\ z \in Nat /\ b \in Seq(R) /\ Len(b) = z + 1 /\ b[z + 1] = x
        /\ \A k \in 1..z : b[k] = a[k]
      BY <2>2
  <2>6. Total(b) = Total(a) + x.dryTons BY <2>2, <2>4, TotalOfAppend
  <2> HIDE DEF b, z
  <2>7. \A k : k \in 1..Len(b) <=> k \in 1..z \/ k = z + 1
    <3>1. z \in Nat /\ Len(b) = z + 1 BY <2>5
    <3>2. \A k : k \in 1..(z + 1) <=> k \in 1..z \/ k = z + 1 BY <3>1, SMTT(30)
    <3> QED BY <3>1, <3>2
  <2>8. \A k \in 1..Len(b) : \E i \in 1..m : left[i] < left[i - 1] /\ b[k] = Given(fs, left, i)
    <3> TAKE k \in 1..Len(b)
    <3>1. CASE k \in 1..z
      <4>1. PICK i \in 1..(m - 1) : left[i] < left[i - 1] /\ a[k] = Given(fs, left, i)
          BY <3>1 DEF AllocatedTo, z
      <4>2. i \in 1..m OBVIOUS
      <4> QED BY <2>5, <3>1, <4>1, <4>2
    <3>2. CASE k = z + 1
      <4>1. b[k] = Given(fs, left, m) BY <2>5, <3>2 DEF x
      <4>2. m \in 1..m OBVIOUS
      <4> QED BY <1>3, <4>1, <4>2
    <3> QED BY <2>7, <3>1, <3>2
  <2>9. ASSUME NEW i \in 1..m, left[i] < left[i - 1]
        PROVE  \E k \in 1..Len(b) : b[k] = Given(fs, left, i)
    <3>1. CASE i = m
      <4>1. b[z + 1] = Given(fs, left, i) BY <2>5, <3>1 DEF x
      <4> QED BY <2>7, <4>1
    <3>2. CASE i # m
      <4>1. i \in 1..(m - 1) BY <3>2
      <4>2. PICK k \in 1..z : a[k] = Given(fs, left, i)
          BY <2>9, <4>1 DEF AllocatedTo, z
      <4>3. k \in 1..Len(b) /\ b[k] = a[k] BY <2>5, <2>7, <4>2
      <4> QED BY <4>2, <4>3
    <3> QED BY <3>1, <3>2
  <2>10. \A k \in 1..z : a[k].field # x.field
    <3> TAKE k \in 1..z
    <3>1. PICK i \in 1..(m - 1) : a[k] = Given(fs, left, i) BY DEF AllocatedTo, z
    <3>2. a[k].field = fs[i].field BY <3>1, GivenFields
    <3>3. i \in 1..n /\ i # m OBVIOUS
    <3> QED BY <2>3, <3>2, <3>3
  <2>11. ASSUME NEW k \in 1..Len(b), NEW l \in 1..Len(b), b[k].field = b[l].field
         PROVE  k = l
    <3>1. CASE k \in 1..z /\ l \in 1..z
        BY <2>5, <2>11, <3>1 DEF AllocatedTo, z
    <3>2. CASE k = z + 1 /\ l = z + 1 BY <3>2
    <3>3. CASE k = z + 1 /\ l \in 1..z BY <2>5, <2>10, <2>11, <3>3
    <3>4. CASE l = z + 1 /\ k \in 1..z BY <2>5, <2>10, <2>11, <3>4
    <3> QED BY <2>7, <3>1, <3>2, <3>3, <3>4
  <2>12. Total(b) = left[0] - left[m]
    <3>1. Total(a) = left[0] - left[m - 1] BY DEF AllocatedTo
    <3> QED BY <1>1, <2>3, <2>6, <3>1
  <2>13. AllocatedTo(b, fs, left, m)
      BY <2>8, <2>9, <2>11, <2>12 DEF AllocatedTo
  <2> QED BY <2>1, <2>5, <2>13
<1> QED BY <1>2, <1>3

(* allocate gives each field what Remaining falls by at its turn.          *)
LEMMA AllocateFits ==
    ASSUME NEW n \in Nat, NEW fs, Len(fs) = n, \A i \in 1..n : fs[i].capacity \in Nat,
           \A i, j \in 1..n : fs[i].field = fs[j].field => i = j,
           NEW batch \in Nat
    PROVE  /\ Len(allocate(fs, batch)) \in Nat
           /\ DOMAIN allocate(fs, batch) = 1..Len(allocate(fs, batch))
           /\ AllocatedTo(allocate(fs, batch), fs, Remaining(fs, batch), n)
<1> DEFINE left == Remaining(fs, batch)
           R == {Given(fs, left, i) : i \in 1..n}
           G == [p \in (1..n) \X Seq(R) |-> OneRow(fs, left, p[2], p[1])]
           c == CHOOSE f : RowsTo(f, fs, left)
<1>1. left \in [0..n -> Nat] /\ \A i \in 1..n : left[i] <= left[i - 1]
  <2>1. /\ left \in [0..n -> Nat]
        /\ \A i \in 1..n : left[i] = left[i - 1] - Takes(fs[i], left[i - 1])
    <3>1. Falls(left, fs, n, batch) BY RemainingFalls
    <3> HIDE DEF left
    <3> QED BY <3>1 DEF Falls
  <2> HIDE DEF left
  <2>2. ASSUME NEW i \in 1..n PROVE left[i] <= left[i - 1]
    <3>1. left[i] = left[i - 1] - Takes(fs[i], left[i - 1]) BY <2>1
    <3>2. i - 1 \in 0..n OBVIOUS
    <3>3. left[i - 1] \in Nat BY <2>1, <3>2
    <3>4. Takes(fs[i], left[i - 1]) \in Nat BY <3>3, TakesSome
    <3> QED BY <3>1, <3>3, <3>4
  <2> QED BY <2>1, <2>2
<1>2. allocate(fs, batch) = (CHOOSE f : RowsTo(f, fs, left))[n]
    BY DEF allocate, RowsTo, OneRow
<1> HIDE DEF left
<1>3. ASSUME NEW i \in 1..n, NEW r \in Seq(R) PROVE OneRow(fs, left, r, i) \in Seq(R)
  <2>1. Given(fs, left, i) \in R OBVIOUS
  <2> HIDE DEF R
  <2>2. Append(r, Given(fs, left, i)) \in Seq(R) BY <2>1
  <2> QED BY <2>2 DEF OneRow, Given
<1>4. \E f : RowsTo(f, fs, left)
  <2> HIDE DEF R
  <2>1. G \in [(1..n) \X Seq(R) -> Seq(R)] BY <1>3
  <2>2. \A i \in 1..n, x \in Seq(R) : G[<<i, x>>] = OneRow(fs, left, x, i) OBVIOUS
  <2> HIDE DEF G
  <2>3. <<>> \in Seq(R) OBVIOUS
  <2>4. PICK f \in [0..n -> Seq(R)] : Rounds(f, n, <<>>, G) BY <2>1, <2>3, RoundsOf
  <2>5. \A i \in 0..n : i # 0 => i \in 1..n /\ f[i - 1] \in Seq(R) OBVIOUS
  <2>6. \A i \in 0..n : (IF i = 0 THEN <<>> ELSE G[<<i, f[i - 1]>>])
                          = (IF i = 0 THEN <<>> ELSE OneRow(fs, left, f[i - 1], i))
      BY <2>2, <2>5
  <2>7. RowsTo(f, fs, left) BY <2>4, <2>6 DEF RowsTo, Rounds
  <2> QED BY <2>7
<1>5. RowsTo(c, fs, left) BY <1>4
<1>6. allocate(fs, batch) = c[n] BY <1>2
<1> HIDE DEF c
<1>7. c[0] = <<>> BY <1>5 DEF RowsTo
<1>8. \A i \in 1..n : c[i] = OneRow(fs, left, c[i - 1], i)
  <2> TAKE i \in 1..n
  <2>1. i \in 0..n /\ i # 0 OBVIOUS
  <2> QED BY <1>5, <2>1 DEF RowsTo
<1>9. \A i \in 0..n : c[i] \in Seq(R) /\ AllocatedTo(c[i], fs, left, i)
  <2> DEFINE P == {i \in 0..n : c[i] \in Seq(R) /\ AllocatedTo(c[i], fs, left, i)}
  <2>1. 0 \in P
    <3>1. c[0] \in Seq(R) /\ Len(c[0]) = 0 BY <1>7
    <3>2. Total(c[0]) = 0 BY <1>7, TotalOfNothing
    <3>3. left[0] - left[0] = 0 BY <1>1
    <3>4. AllocatedTo(c[0], fs, left, 0) BY <3>1, <3>2, <3>3 DEF AllocatedTo
    <3> QED BY <3>1, <3>4
  <2>2. ASSUME NEW i \in 1..n, i - 1 \in P PROVE i \in P
    <3>1. c[i - 1] \in Seq(R) /\ AllocatedTo(c[i - 1], fs, left, i - 1) BY <2>2
    <3>2. left[i] <= left[i - 1] BY <1>1
    <3> DEFINE r == c[i - 1]
    <3> HIDE DEF r
    <3>3. r \in Seq(R) /\ AllocatedTo(r, fs, left, i - 1) BY <3>1 DEF r
    <3>4. \E Q : Q = R OBVIOUS
    <3>5. OneRow(fs, left, r, i) \in Seq(R) /\ AllocatedTo(OneRow(fs, left, r, i), fs, left, i)
      <4> HIDE DEF P
      <4>1. PICK Q : Q = {Given(fs, left, k) : k \in 1..n} OBVIOUS
      <4>2. r \in Seq(Q) BY <3>3, <4>1
      <4>3. OneRow(fs, left, r, i) \in Seq(Q) /\ AllocatedTo(OneRow(fs, left, r, i), fs, left, i)
          BY <1>1, <3>2, <3>3, <4>1, <4>2, NextRow
      <4> QED BY <4>1, <4>3
    <3>6. c[i] = OneRow(fs, left, r, i) BY <1>8 DEF r
    <3> QED BY <3>5, <3>6
  <2>3. \A i \in 0..n : i \in P
    <3> HIDE DEF P
    <3> QED BY <2>1, <2>2, UpTo
  <2> QED BY <2>3
<1>10. c[n] \in Seq(R) /\ AllocatedTo(c[n], fs, left, n)
  <2>1. n \in 0..n OBVIOUS
  <2> HIDE DEF R
  <2> QED BY <1>9, <2>1
<1>11. Len(c[n]) \in Nat /\ DOMAIN c[n] = 1..Len(c[n])
  <2> HIDE DEF R
  <2> QED BY <1>10
<1> QED BY <1>6, <1>10, <1>11 DEF left

-----------------------------------------------------------------------------
(***************************************************************************)
(* Positions and bands.                                                    *)
(***************************************************************************)

(* A set of positions that is not empty has a last one. *)
LEMMA GreatestPosition ==
    ASSUME NEW n \in Nat, NEW T, T \subseteq 1..n, T # {}
    PROVE  \E x \in T : \A y \in T : y <= x
<1> DEFINE D == {n - y : y \in T}
<1>1. \A y \in T : y \in 1..n OBVIOUS
<1>2. \A y \in T : n - y \in Nat BY <1>1
<1>3. D \in SUBSET Nat /\ D # {} BY <1>2
<1> HIDE DEF D
<1>4. PICK d \in D : \A e \in D : d <= e BY <1>3, LeastNatural
<1>5. PICK x \in T : d = n - x BY DEF D
<1>6. ASSUME NEW y \in T PROVE y <= x
  <2>1. n - y \in D BY DEF D
  <2>2. d <= n - y BY <1>4, <2>1
  <2> QED BY <1>1, <1>5, <2>2
<1> QED BY <1>6

(* The rows of a table in the order of their creation. *)
Listed(s) == s \in Seq({s[i] : i \in DOMAIN s})

(* A new row is the last one and leaves the others alone.                  *)
LEMMA ListedAppend ==
    ASSUME NEW s, Listed(s), NEW x
    PROVE  LET t == Append(s, x)
           IN  /\ Listed(t)
               /\ Len(s) \in Nat /\ DOMAIN s = 1..Len(s)
               /\ DOMAIN t = 1..(Len(s) + 1)
               /\ t[Len(s) + 1] = x
               /\ \A i \in 1..Len(s) : t[i] = s[i]
<1> DEFINE t == Append(s, x)
<1>1. PICK R : R = {s[i] : i \in DOMAIN s} OBVIOUS
<1>2. s \in Seq(R) BY <1>1 DEF Listed
<1>3. PICK n : n = Len(s) OBVIOUS
<1>4. n \in Nat /\ DOMAIN s = 1..n BY <1>2, <1>3
<1>5. PICK Q : Q = R \cup {x} OBVIOUS
<1>6. s \in Seq(Q) BY <1>2, <1>5
<1>7. x \in Q BY <1>5
<1>8. t \in Seq(Q) /\ Len(t) = n + 1 /\ t[n + 1] = x /\ \A i \in 1..n : t[i] = s[i]
    BY <1>3, <1>6, <1>7
<1> HIDE DEF t
<1>9. DOMAIN t = 1..(n + 1) BY <1>4, <1>8
<1>10. Listed(t)
  <2>1. \A i \in 1..(n + 1) : t[i] \in {t[k] : k \in DOMAIN t} BY <1>9
  <2>2. t = [i \in 1..(n + 1) |-> t[i]] BY <1>8, <1>9
  <2>3. PICK S : S = {t[k] : k \in DOMAIN t} OBVIOUS
  <2>4. t \in [1..(n + 1) -> S] BY <2>1, <2>2, <2>3
  <2>5. n + 1 \in Nat BY <1>4
  <2>6. t \in Seq(S) BY <2>4, <2>5
  <2> QED BY <2>3, <2>6 DEF Listed
<1> QED BY <1>3, <1>4, <1>8, <1>9, <1>10 DEF t

(* The concerns of a band are counted by a natural number.                 *)
LEMMA CountBands ==
    ASSUME NEW a, NEW b, NEW c, NEW d, NEW e, NEW band
    PROVE  Count(<<a, b, c, d, e>>, band) \in Nat
<1>1. DOMAIN <<a, b, c, d, e>> = 1..5 OBVIOUS
<1>2. PICK T : T = {i \in DOMAIN <<a, b, c, d, e>> : <<a, b, c, d, e>>[i] = band} OBVIOUS
<1>3. PICK n \in Nat : n = 5 OBVIOUS
<1>4. T \in SUBSET (1..n) BY <1>1, <1>2, <1>3
<1>5. IsFiniteSet(1..n) BY FS_Interval
<1>6. IsFiniteSet(T) BY <1>4, <1>5, FS_Subset
<1> QED BY <1>2, <1>6, FS_CardinalityType DEF Count

-----------------------------------------------------------------------------
(***************************************************************************)
(* The fields and the input of a plan.                                     *)
(***************************************************************************)

(* What is stored of a field, and what is found of it. *)
FieldInput(in) ==
    /\ in.critical \in Nat /\ in.other \in Nat
    /\ in.acres \in Nat \cup {None}
    /\ in.agronomic \in Nat \cup {None}
    /\ in.prior \in Nat \cup {None}
    /\ in.road \in Int /\ in.position \in Int

(* What makes a field eligible: confirmed and examined, its rate within the *)
(* limits and its capacity, up to rounding, within the room that is left.  *)
Fits(f, in, t, cap) ==
    /\ in.status = "READY" /\ in.evaluation # None /\ in.physicalStatus = "SUCCEEDED"
    /\ in.critical = 0
    /\ in.acres \in Nat /\ in.prior \in Nat /\ f.rate \in Nat
    /\ f.rate <= in.agronomic
    /\ t = "ELEVATED" => f.rate <= cap
    /\ 2 * Scale * f.capacity <= 2 * (in.acres * f.rate - in.prior * Scale) + Scale

(* evaluateField finds quantities, and an eligible field only where it fits. *)
LEMMA EvaluatedField ==
    ASSUME NEW t, NEW cap, t = "ELEVATED" => cap \in Nat, NEW in, FieldInput(in),
           NEW f, f = evaluateField(t, cap, in)
    PROVE  /\ f.field = in.field /\ f.position = in.position /\ f.evaluation = in.evaluation
           /\ f.capacity \in Nat
           /\ f.high \in Nat /\ f.moderate \in Nat /\ f.gaps \in Nat /\ f.road \in Int
           /\ f.disposition \in {"ELIGIBLE", "REVIEW_REQUIRED", "INELIGIBLE"}
           /\ f.disposition = "ELIGIBLE" => Fits(f, in, t, cap)
<1> DEFINE bands == categories(in)
           open == Confirmed(in) /\ Examined(in) /\ Measured(in)
           rate == AllowedRate(t, cap, in)
           room == Room(in, rate)
<1>1. /\ Count(bands, "HIGH") \in Nat /\ Count(bands, "MODERATE") \in Nat
      /\ Count(bands, "UNKNOWN") \in Nat
    BY CountBands DEF categories
<1>2. /\ f.field = in.field /\ f.position = in.position /\ f.evaluation = in.evaluation
      /\ f.road = in.road
      /\ f.high = Count(bands, "HIGH") /\ f.moderate = Count(bands, "MODERATE")
      /\ f.gaps = Count(bands, "UNKNOWN") + in.critical + in.other
                    + (IF Measured(in) THEN 0 ELSE 1)
      /\ f.rate = IF open THEN rate ELSE None
      /\ f.capacity = IF open /\ room > 0 THEN formatRat(room, Scale) ELSE 0
      /\ f.disposition = IF ~Confirmed(in) THEN "INELIGIBLE"
                         ELSE IF ~open THEN "REVIEW_REQUIRED"
                         ELSE IF room <= 0 THEN "INELIGIBLE"
                         ELSE "ELIGIBLE"
    BY DEF evaluateField
<1>3. open => /\ in.acres \in Nat /\ in.agronomic \in Nat /\ in.prior \in Nat
              /\ rate \in Nat /\ rate <= in.agronomic
              /\ t = "ELEVATED" => rate <= cap
    BY DEF Measured, FieldInput, AllowedRate, minRat
<1>4. open => room \in Int
  <2>1. ASSUME NEW a \in Nat, NEW b \in Nat, NEW p \in Nat, NEW q \in Nat
        PROVE  a * b - p * q \in Int
      OBVIOUS
  <2>2. Scale \in Nat BY ScaleAssumption
  <2> HIDE DEF open, rate
  <2>3. open => in.acres * rate - in.prior * Scale \in Int BY <1>3, <2>1, <2>2
  <2> QED BY <2>3 DEF Room
<1> HIDE DEF bands, open, rate, room
<1>5. open /\ room > 0 => /\ formatRat(room, Scale) \in Nat
                          /\ 2 * Scale * formatRat(room, Scale) <= 2 * room + Scale
  <2> SUFFICES ASSUME open, room > 0 PROVE /\ formatRat(room, Scale) \in Nat
                          /\ 2 * Scale * formatRat(room, Scale) <= 2 * room + Scale
      OBVIOUS
  <2>1. room \in Nat BY <1>4
  <2>2. Scale \in Nat \ {0} BY ScaleAssumption
  <2> QED BY <2>1, <2>2, Formatted
<1>6. f.capacity \in Nat BY <1>2, <1>5
<1>7. f.high \in Nat /\ f.moderate \in Nat /\ f.road \in Int BY <1>1, <1>2 DEF FieldInput
<1>8. f.gaps \in Nat BY <1>1, <1>2 DEF FieldInput
<1>9. f.disposition \in {"ELIGIBLE", "REVIEW_REQUIRED", "INELIGIBLE"} BY <1>2
<1>10. ASSUME f.disposition = "ELIGIBLE" PROVE Fits(f, in, t, cap)
  <2>1. open /\ ~(room <= 0) BY <1>2, <1>10
  <2>2. room > 0 BY <1>4, <2>1
  <2>3. f.rate = rate /\ f.capacity = formatRat(room, Scale) BY <1>2, <2>1, <2>2
  <2>4. room = in.acres * f.rate - in.prior * Scale BY <2>3 DEF room, Room
  <2>5. 2 * Scale * f.capacity <= 2 * room + Scale BY <1>5, <2>1, <2>2, <2>3
  <2>6. /\ in.status = "READY" /\ in.evaluation # None /\ in.physicalStatus = "SUCCEEDED"
        /\ in.critical = 0
      BY <2>1 DEF open, Confirmed, Examined
  <2> QED BY <1>3, <2>1, <2>3, <2>4, <2>5, <2>6 DEF Fits
<1> QED BY <1>2, <1>6, <1>7, <1>8, <1>9, <1>10

(* The rank of a field is made of numbers, the last one its position.      *)
LEMMA RankTyped ==
    ASSUME NEW f, f.capacity \in Nat, f.high \in Nat, f.moderate \in Nat, f.gaps \in Nat,
           f.road \in Int, f.position \in Int
    PROVE  (\A m \in 1..7 : Rank(f)[m] \in Int) /\ Rank(f)[7] = f.position
<1>1. dispositionOrder(f.disposition) \in Int BY DEF dispositionOrder
<1>2. \A m \in 1..7 : m = 1 \/ m = 2 \/ m = 3 \/ m = 4 \/ m = 5 \/ m = 6 \/ m = 7 OBVIOUS
<1>3. /\ Rank(f)[1] = dispositionOrder(f.disposition) /\ Rank(f)[2] = f.high
      /\ Rank(f)[3] = f.moderate /\ Rank(f)[4] = f.gaps /\ Rank(f)[5] = 0 - f.capacity
      /\ Rank(f)[6] = f.road /\ Rank(f)[7] = f.position
    BY DEF Rank
<1>4. /\ Rank(f)[1] \in Int /\ Rank(f)[2] \in Int /\ Rank(f)[3] \in Int /\ Rank(f)[4] \in Int
      /\ Rank(f)[5] \in Int /\ Rank(f)[6] \in Int /\ Rank(f)[7] \in Int
    BY <1>1, <1>3
<1> QED BY <1>2, <1>3, <1>4

(* Of two eligible fields the one with fewer high concerns comes first. *)
LEMMA FewerConcernsFirst ==
    ASSUME NEW f, NEW g, f.disposition = "ELIGIBLE", g.disposition = "ELIGIBLE",
           f.high \in Nat, g.high \in Nat, f.high < g.high
    PROVE  ~Before(g, f)
<1>1. Rank(f)[1] = 0 /\ Rank(g)[1] = 0 /\ Rank(f)[2] = f.high /\ Rank(g)[2] = g.high
    BY DEF Rank, dispositionOrder
<1> QED BY <1>1, BeforeIsSmaller, SmallerAt

(* The input of a plan: a row for each candidate field, in their order. *)
PlanInput(in) ==
    /\ in.tier = "ELEVATED" => in.policyRate \in Nat
    /\ in.quantity \in Quantities \cup {None}
    /\ DOMAIN in.fields = 1..Len(FieldOrder)
    /\ \A m \in 1..Len(FieldOrder) :
         /\ FieldInput(in.fields[m])
         /\ in.fields[m].position = m
         /\ in.fields[m].field = FieldOrder[m]

(* What is found of the field at m, and the fields in the order of ranks.  *)
Found(in, m) == evaluateField(in.tier, in.policyRate, in.fields[m])
Ordered(in) == rankFields([m \in DOMAIN in.fields |-> Found(in, m)])

(* Each field once, with what was found of it, and in the order of ranks.  *)
Sorted(fs, in, n) ==
    /\ Len(fs) = n /\ DOMAIN fs = 1..n
    /\ \A k \in 1..n : \E m \in 1..n : fs[k] = Found(in, m)
    /\ \A k \in 1..n : fs[k].capacity \in Nat /\ fs[k].high \in Nat
    /\ \A k, l \in 1..n : fs[k].field = fs[l].field => k = l
    /\ \A k, l \in 1..n : k < l => Before(fs[k], fs[l])

(* EvaluatedField for the fields of a plan.                                *)
LEMMA FoundIs ==
    ASSUME NEW in, PlanInput(in), NEW m \in 1..Len(FieldOrder), NEW f, f = Found(in, m)
    PROVE  /\ f.field = FieldOrder[m] /\ f.position = m /\ f.evaluation = in.fields[m].evaluation
           /\ f.capacity \in Nat
           /\ f.high \in Nat /\ f.moderate \in Nat /\ f.gaps \in Nat /\ f.road \in Int
           /\ f.disposition \in {"ELIGIBLE", "REVIEW_REQUIRED", "INELIGIBLE"}
           /\ f.disposition = "ELIGIBLE" => Fits(f, in.fields[m], in.tier, in.policyRate)
<1>1. /\ FieldInput(in.fields[m]) /\ in.fields[m].position = m
      /\ in.fields[m].field = FieldOrder[m]
      /\ in.tier = "ELEVATED" => in.policyRate \in Nat
    BY DEF PlanInput
<1>2. f = evaluateField(in.tier, in.policyRate, in.fields[m]) BY DEF Found
<1>3. /\ f.field = in.fields[m].field /\ f.position = in.fields[m].position
      /\ f.evaluation = in.fields[m].evaluation
      /\ f.capacity \in Nat
      /\ f.high \in Nat /\ f.moderate \in Nat /\ f.gaps \in Nat /\ f.road \in Int
      /\ f.disposition \in {"ELIGIBLE", "REVIEW_REQUIRED", "INELIGIBLE"}
      /\ f.disposition = "ELIGIBLE" => Fits(f, in.fields[m], in.tier, in.policyRate)
    BY <1>1, <1>2, EvaluatedField
<1> QED BY <1>1, <1>3

(* The ranked fields of a plan are sorted.                                 *)
LEMMA OrderedIsSorted ==
    ASSUME NEW in, PlanInput(in), NEW n \in Nat, n = Len(FieldOrder)
    PROVE  Sorted(Ordered(in), in, n)
<1> DEFINE gs == [m \in DOMAIN in.fields |-> Found(in, m)]
<1>1. DOMAIN gs = 1..n /\ \A m \in 1..n : gs[m] = Found(in, m) BY DEF PlanInput
<1>2. \A m \in 1..n : /\ gs[m].field = FieldOrder[m] /\ gs[m].position = m
                      /\ gs[m].capacity \in Nat /\ gs[m].high \in Nat /\ gs[m].moderate \in Nat
                      /\ gs[m].gaps \in Nat /\ gs[m].road \in Int
    BY <1>1, FoundIs
<1> HIDE DEF gs
<1>3. \A m \in 1..n : (\A i \in 1..7 : Rank(gs[m])[i] \in Int) /\ Rank(gs[m])[7] = m
  <2> TAKE m \in 1..n
  <2>1. /\ gs[m].capacity \in Nat /\ gs[m].high \in Nat /\ gs[m].moderate \in Nat
        /\ gs[m].gaps \in Nat /\ gs[m].road \in Int
        /\ gs[m].position = m /\ gs[m].position \in Int
      BY <1>2
  <2>2. (\A i \in 1..7 : Rank(gs[m])[i] \in Int) /\ Rank(gs[m])[7] = gs[m].position
      BY <2>1, RankTyped
  <2> QED BY <2>1, <2>2
<1>4. Comparable(gs, n) BY <1>3 DEF Comparable
<1>5. PICK at \in [1..n -> 1..n] :
             /\ rankFields(gs) = [k \in 1..n |-> gs[at[k]]]
             /\ \A k, l \in 1..n : at[k] = at[l] => k = l
             /\ \A k, l \in 1..n : k < l => Before(gs[at[k]], gs[at[l]])
    BY <1>1, <1>4, RankFieldsSorts
<1>6. PICK fs : fs = Ordered(in) OBVIOUS
<1>7. fs = [k \in 1..n |-> gs[at[k]]] BY <1>5, <1>6 DEF Ordered, gs
<1>8. Len(fs) = n /\ DOMAIN fs = 1..n
  <2>1. PICK S : S = {gs[m] : m \in 1..n} OBVIOUS
  <2>2. \A k \in 1..n : gs[at[k]] \in S BY <2>1
  <2>3. fs \in [1..n -> S] BY <1>7, <2>2
  <2> QED BY <1>7, <2>3
<1>9. \A k \in 1..n : at[k] \in 1..n /\ fs[k] = gs[at[k]] BY <1>7
<1>10. \A k \in 1..n : \E m \in 1..n : fs[k] = Found(in, m) BY <1>1, <1>9
<1>11. \A k \in 1..n : /\ fs[k].capacity \in Nat /\ fs[k].high \in Nat
                       /\ fs[k].field = FieldOrder[at[k]]
    BY <1>2, <1>9
<1>12. \A k, l \in 1..n : fs[k].field = fs[l].field => k = l
    BY <1>5, <1>9, <1>11, FieldAssumption
<1>13. \A k, l \in 1..n : k < l => Before(fs[k], fs[l]) BY <1>5, <1>9
<1>14. Sorted(fs, in, n) BY <1>8, <1>10, <1>11, <1>12, <1>13 DEF Sorted
<1> QED BY <1>6, <1>14

-----------------------------------------------------------------------------
(***************************************************************************)
(* The plan: what allocate makes of the ranked fields, and EvaluatePlan    *)
(* of that.                                                                *)
(***************************************************************************)

(* Nothing of the batch is lost, or given to a field twice.                *)
Conserved(a, left, batch) ==
    /\ left \in Nat /\ Total(a) \in Int /\ Total(a) + left = batch
    /\ \A k, l \in DOMAIN a : a[k].field = a[l].field => k = l
    /\ \A k \in DOMAIN a : a[k].dryTons > 0

(* Each allocation is of an eligible field and not more than its capacity. *)
Granted(a, fs, in) ==
    \A k \in DOMAIN a : \E j \in DOMAIN fs, m \in DOMAIN in.fields :
        /\ fs[j] = Found(in, m)
        /\ fs[j].disposition = "ELIGIBLE"
        /\ a[k].field = fs[j].field /\ a[k].evaluation = fs[j].evaluation
        /\ a[k].rate = fs[j].rate
        /\ a[k].dryTons \in Nat /\ a[k].dryTons <= fs[j].capacity

(* A field with fewer high concerns is used up before another is used.     *)
Used(a, f) == \E n \in DOMAIN a : a[n].field = f.field
UsedUp(a, f) == \E n \in DOMAIN a : a[n].field = f.field /\ a[n].dryTons = f.capacity
LeastConcern(a, fs) ==
    \A k, l \in DOMAIN fs :
        /\ fs[k].disposition = "ELIGIBLE"
        /\ fs[k].high < fs[l].high
        /\ Used(a, fs[l])
        => fs[k].capacity = 0 \/ UsedUp(a, fs[k])

(* What is left never rises again.                                         *)
LEMMA NeverRises ==
    ASSUME NEW n \in Nat, NEW left \in [0..n -> Nat], \A i \in 1..n : left[i] <= left[i - 1],
           NEW k \in 0..n, NEW l \in 0..n, k <= l
    PROVE  left[l] <= left[k]
<1> DEFINE P == {i \in 0..n : i >= k => left[i] <= left[k]}
<1>1. 0 \in P
  <2>1. 0 >= k => k = 0 OBVIOUS
  <2> QED BY <2>1
<1>2. ASSUME NEW i \in 1..n, i - 1 \in P PROVE i \in P
  <2>1. i \in 0..n /\ i - 1 \in 0..n /\ left[i] <= left[i - 1] OBVIOUS
  <2>2. CASE i = k BY <2>1, <2>2
  <2>3. CASE i > k
    <3>1. left[i - 1] <= left[k] BY <1>2, <2>3
    <3> QED BY <2>1, <3>1
  <2>4. CASE i < k BY <2>1, <2>4
  <2> QED BY <2>2, <2>3, <2>4
<1>3. \A i \in 0..n : i \in P
  <2> HIDE DEF P
  <2> QED BY <1>1, <1>2, UpTo
<1> QED BY <1>3

(* The allocations of a sorted list of fields.                             *)
LEMMA AllocationsOf ==
    ASSUME NEW in, PlanInput(in), NEW n \in Nat, n = Len(FieldOrder),
           NEW fs, Sorted(fs, in, n), NEW batch \in Nat,
           NEW a, a = allocate(fs, batch), NEW left, left = Remaining(fs, batch)
    PROVE  /\ Conserved(a, left[n], batch)
           /\ Granted(a, fs, in)
           /\ LeastConcern(a, fs)
<1>1. /\ Len(fs) = n /\ DOMAIN fs = 1..n
      /\ \A i \in 1..n : fs[i].capacity \in Nat /\ fs[i].high \in Nat
      /\ \A i, j \in 1..n : fs[i].field = fs[j].field => i = j
      /\ \A k \in 1..n : \E m \in 1..n : fs[k] = Found(in, m)
      /\ \A k, l \in 1..n : k < l => Before(fs[k], fs[l])
    BY DEF Sorted
<1>2. /\ Len(a) \in Nat /\ DOMAIN a = 1..Len(a)
      /\ AllocatedTo(a, fs, left, n)
    BY <1>1, AllocateFits
<1>3. Falls(left, fs, n, batch) BY <1>1, RemainingFalls
<1>4. /\ left \in [0..n -> Nat] /\ left[0] = batch
      /\ \A i \in 1..n : left[i] = left[i - 1] - Takes(fs[i], left[i - 1])
    BY <1>3 DEF Falls
<1>5. \A i \in 1..n : /\ left[i] \in Nat /\ left[i - 1] \in Nat
                      /\ Takes(fs[i], left[i - 1]) \in Nat
                      /\ Takes(fs[i], left[i - 1]) <= fs[i].capacity
  <2> TAKE i \in 1..n
  <2>1. i \in 0..n /\ i - 1 \in 0..n OBVIOUS
  <2>2. left[i] \in Nat /\ left[i - 1] \in Nat BY <1>4, <2>1
  <2> QED BY <1>1, <2>2, TakesSome
<1>6. \A i \in 1..n : left[i] <= left[i - 1] BY <1>4, <1>5
<1>7. ASSUME NEW i \in 1..n, left[i] < left[i - 1]
      PROVE  /\ fs[i].disposition = "ELIGIBLE"
             /\ left[i - 1] - left[i] \in Nat /\ left[i - 1] - left[i] > 0
             /\ left[i - 1] - left[i] <= fs[i].capacity
  <2>1. left[i - 1] - left[i] = Takes(fs[i], left[i - 1]) BY <1>4, <1>5
  <2>2. Takes(fs[i], left[i - 1]) > 0 BY <1>5, <1>7, <2>1
  <2>3. fs[i].disposition = "ELIGIBLE" BY <2>2 DEF Takes
  <2> QED BY <1>5, <2>1, <2>2, <2>3
<1>8. ASSUME NEW k \in DOMAIN a
      PROVE  \E i \in 1..n : /\ left[i] < left[i - 1]
                             /\ a[k].field = fs[i].field /\ a[k].evaluation = fs[i].evaluation
                             /\ a[k].rate = fs[i].rate /\ a[k].dryTons = left[i - 1] - left[i]
  <2>1. PICK i \in 1..n : left[i] < left[i - 1] /\ a[k] = Given(fs, left, i)
      BY <1>2 DEF AllocatedTo
  <2>2. /\ a[k].field = fs[i].field /\ a[k].evaluation = fs[i].evaluation
        /\ a[k].rate = fs[i].rate /\ a[k].dryTons = left[i - 1] - left[i]
      BY <2>1 DEF Given, Allocation
  <2> QED BY <2>1, <2>2
<1>9. Conserved(a, left[n], batch)
  <2>1. n \in 0..n /\ 0 \in 0..n OBVIOUS
  <2>2. left[n] \in Nat BY <1>4, <2>1
  <2>3. Total(a) = left[0] - left[n] BY <1>2 DEF AllocatedTo
  <2>4. Total(a) \in Int /\ Total(a) + left[n] = batch BY <1>4, <2>2, <2>3
  <2>5. \A k, l \in DOMAIN a : a[k].field = a[l].field => k = l BY <1>2 DEF AllocatedTo
  <2>6. ASSUME NEW k \in DOMAIN a PROVE a[k].dryTons > 0
    <3>1. PICK i \in 1..n : left[i] < left[i - 1] /\ a[k].dryTons = left[i - 1] - left[i]
        BY <1>8
    <3> QED BY <1>7, <3>1
  <2> QED BY <2>2, <2>4, <2>5, <2>6 DEF Conserved
<1>10. Granted(a, fs, in)
  <2> SUFFICES ASSUME NEW k \in DOMAIN a
               PROVE  \E j \in DOMAIN fs, m \in DOMAIN in.fields :
                        /\ fs[j] = Found(in, m)
                        /\ fs[j].disposition = "ELIGIBLE"
                        /\ a[k].field = fs[j].field /\ a[k].evaluation = fs[j].evaluation
                        /\ a[k].rate = fs[j].rate
                        /\ a[k].dryTons \in Nat /\ a[k].dryTons <= fs[j].capacity
      BY DEF Granted
  <2>1. PICK i \in 1..n : /\ left[i] < left[i - 1]
                          /\ a[k].field = fs[i].field /\ a[k].evaluation = fs[i].evaluation
                          /\ a[k].rate = fs[i].rate /\ a[k].dryTons = left[i - 1] - left[i]
      BY <1>8
  <2>2. fs[i].disposition = "ELIGIBLE" /\ a[k].dryTons \in Nat /\ a[k].dryTons <= fs[i].capacity
      BY <1>7, <2>1
  <2>3. PICK m \in 1..n : fs[i] = Found(in, m) BY <1>1
  <2>4. m \in DOMAIN in.fields /\ i \in DOMAIN fs BY <1>1 DEF PlanInput
  <2> QED BY <2>1, <2>2, <2>3, <2>4
<1>11. LeastConcern(a, fs)
  <2> SUFFICES ASSUME NEW k \in 1..n, NEW l \in 1..n, fs[k].disposition = "ELIGIBLE",
                      fs[k].high < fs[l].high, Used(a, fs[l]), fs[k].capacity # 0
               PROVE  UsedUp(a, fs[k])
      BY <1>1 DEF LeastConcern
  <2>1. PICK z \in DOMAIN a : a[z].field = fs[l].field BY DEF Used
  <2>2. PICK i \in 1..n : left[i] < left[i - 1] /\ a[z].field = fs[i].field BY <1>8
  <2>3. i = l BY <1>1, <2>1, <2>2
  <2>4. fs[l].disposition = "ELIGIBLE" /\ left[l] < left[l - 1] BY <1>7, <2>2, <2>3
  <2>5. ~Before(fs[l], fs[k]) BY <1>1, <2>4, FewerConcernsFirst
  <2>6. k # l
    <3>1. fs[k].high \in Nat BY <1>1
    <3>2. ~(fs[k].high < fs[k].high) BY <3>1
    <3> QED BY <3>2
  <2>7. k < l BY <1>1, <2>5, <2>6
  <2>8. left[l - 1] <= left[k]
    <3>1. k \in 0..n /\ l - 1 \in 0..n /\ k <= l - 1 BY <2>7
    <3> QED BY <1>4, <1>6, <3>1, NeverRises
  <2>9. left[k] > 0
    <3>1. left[l] \in Nat /\ left[l - 1] \in Nat /\ left[k] \in Nat BY <1>5
    <3> QED BY <2>4, <2>8, <3>1
  <2>10. Takes(fs[k], left[k - 1]) = fs[k].capacity
    <3>1. Takes(fs[k], left[k - 1]) = minRat(left[k - 1], fs[k].capacity) BY DEF Takes
    <3>2. left[k] = left[k - 1] - Takes(fs[k], left[k - 1]) BY <1>4
    <3>3. left[k] \in Nat /\ left[k - 1] \in Nat BY <1>5
    <3>4. Takes(fs[k], left[k - 1]) # left[k - 1] BY <2>9, <3>2, <3>3
    <3> QED BY <3>1, <3>4 DEF minRat
  <2>11. left[k - 1] - left[k] = fs[k].capacity /\ left[k] < left[k - 1]
    <3>1. left[k] = left[k - 1] - fs[k].capacity BY <1>4, <2>10
    <3>2. fs[k].capacity \in Nat BY <1>1
    <3>3. left[k] \in Nat /\ left[k - 1] \in Nat BY <1>5
    <3>4. fs[k].capacity > 0 BY <3>2
    <3>5. \A x, y, w \in Nat : x = y - w /\ w > 0 => y - x = w /\ x < y BY SMTT(30)
    <3> QED BY <3>1, <3>2, <3>3, <3>4, <3>5
  <2>12. PICK x \in DOMAIN a : a[x] = Given(fs, left, k)
    <3>1. \E x \in 1..Len(a) : a[x] = Given(fs, left, k) BY <1>2, <2>11 DEF AllocatedTo
    <3> QED BY <1>2, <3>1
  <2>13. a[x].field = fs[k].field /\ a[x].dryTons = fs[k].capacity
      BY <2>11, <2>12 DEF Given, Allocation
  <2> QED BY <2>13 DEF UsedUp
<1> QED BY <1>9, <1>10, <1>11

(* What a plan says of the batch and of the fields, and why it is READY.   *)
SoundPlan(r, in) ==
    /\ r.batch # None =>
         /\ r.unallocated \in Nat /\ Total(r.allocations) \in Int
         /\ Total(r.allocations) + r.unallocated = r.batch
         /\ r.status = "READY" <=> r.unallocated = 0 /\ in.tier # "PROHIBITED"
         /\ \A k, l \in DOMAIN r.allocations :
              r.allocations[k].field = r.allocations[l].field => k = l
         /\ \A k \in DOMAIN r.allocations : r.allocations[k].dryTons > 0
    /\ r.status = "READY" => r.batch # None /\ in.tier # "PROHIBITED"
    /\ Granted(r.allocations, r.fields, in)
    /\ LeastConcern(r.allocations, r.fields)
    /\ \A k \in DOMAIN r.fields : \E m \in DOMAIN in.fields : r.fields[k] = Found(in, m)

(* A plan without a batch gives nothing to anyone.                         *)
LEMMA NothingAllocated ==
    ASSUME NEW fs, NEW in
    PROVE  Granted(<<>>, fs, in) /\ LeastConcern(<<>>, fs)
<1>1. \A k : ~(k \in DOMAIN <<>>) OBVIOUS
<1> QED BY <1>1, Zenon DEF Granted, LeastConcern, Used

(* The columns of a plan.                                                  *)
LEMMA PlanParts ==
    ASSUME NEW s, NEW f, NEW a, NEW b, NEW u, NEW g, NEW r, r = Plan(s, f, a, b, u, g)
    PROVE  /\ r.status = s /\ r.fields = f /\ r.allocations = a /\ r.batch = b
           /\ r.unallocated = u
BY DEF Plan

(* The dry tons of a quantity are a number.                                *)
LEMMA BatchTyped ==
    ASSUME NEW q \in Quantities PROVE dryTons(q) \in Nat /\ dryTons(q) # None
<1>1. q.wet \in Nat /\ q.solids \in Nat BY QuantityAssumption
<1>2. ASSUME NEW x \in Nat, NEW y \in Nat, NEW z \in Nat PROVE x * y * z \in Nat OBVIOUS
<1>3. Scale \in Nat /\ Ton \in Nat \ {0} BY ScaleAssumption
<1>4. q.wet * q.solids * Scale \in Nat BY <1>1, <1>2, <1>3
<1>5. dryTons(q) \in Nat BY <1>3, <1>4, Formatted DEF dryTons
<1> QED BY <1>5, NoneAssumption

(* Every plan the engine makes is sound, whatever its fields.              *)
LEMMA PlanIsSound ==
    ASSUME NEW in, PlanInput(in), NEW r, r = EvaluatePlan(in)
    PROVE  SoundPlan(r, in)
<1>1. PICK n \in Nat : n = Len(FieldOrder) BY FieldAssumption
<1>2. PICK fs : fs = Ordered(in) OBVIOUS
<1>3. PICK batch : batch = IF in.quantity = None THEN None ELSE dryTons(in.quantity) OBVIOUS
<1>4. PICK left : left = Remaining(fs, batch) OBVIOUS
<1>5. PICK a : a = allocate(fs, batch) OBVIOUS
<1>6. Sorted(fs, in, n) BY <1>1, <1>2, OrderedIsSorted
<1>7. Len(fs) = n /\ DOMAIN fs = 1..n BY <1>6 DEF Sorted
<1>8. \A k \in DOMAIN fs : \E m \in DOMAIN in.fields : fs[k] = Found(in, m)
    BY <1>1, <1>6, <1>7 DEF Sorted, PlanInput
<1>9. batch # None =>
          /\ batch \in Nat
          /\ Conserved(a, left[n], batch)
          /\ Granted(a, fs, in)
          /\ LeastConcern(a, fs)
  <2> SUFFICES ASSUME batch # None
               PROVE  /\ batch \in Nat
                      /\ Conserved(a, left[n], batch)
                      /\ Granted(a, fs, in)
                      /\ LeastConcern(a, fs)
      OBVIOUS
  <2>1. in.quantity \in Quantities BY <1>3 DEF PlanInput
  <2>2. batch \in Nat BY <1>3, <2>1, BatchTyped
  <2> QED BY <1>1, <1>4, <1>5, <1>6, <2>2, AllocationsOf
<1>10. r = IF in.tier = "PROHIBITED"
        THEN Plan("LAND_APPLICATION_BLOCKED", <<>>, <<>>, batch, batch,
                  {"LAND_APPLICATION_PROHIBITED"})
        ELSE IF batch = None
        THEN Plan("REVIEW_REQUIRED", fs, <<>>, None, None, {"BATCH_QUANTITY_MISSING"})
        ELSE IF left[n] = 0
        THEN Plan("READY", fs, a, batch, 0, {})
        ELSE IF hasDisposition(fs, "REVIEW_REQUIRED")
        THEN Plan("REVIEW_REQUIRED", fs, a, batch, left[n], {"FIELD_REVIEW_REQUIRED"})
        ELSE Plan("INSUFFICIENT_CAPACITY", fs, a, batch, left[n],
                  {"INSUFFICIENT_ELIGIBLE_CAPACITY"})
    BY <1>2, <1>3, <1>4, <1>5, <1>7 DEF EvaluatePlan, Ordered, Found
<1>11. CASE in.tier = "PROHIBITED"
  <2>1. /\ r.status = "LAND_APPLICATION_BLOCKED" /\ r.fields = <<>> /\ r.allocations = <<>>
        /\ r.batch = batch /\ r.unallocated = batch
      BY <1>10, <1>11, PlanParts
  <2>2. \A k : ~(k \in DOMAIN <<>>) OBVIOUS
  <2>3. Granted(r.allocations, r.fields, in) /\ LeastConcern(r.allocations, r.fields)
      BY <2>1, NothingAllocated
  <2>4. Total(r.allocations) = 0 BY <2>1, TotalOfNothing
  <2>5. r.batch # None => /\ r.unallocated \in Nat /\ Total(r.allocations) \in Int
                          /\ Total(r.allocations) + r.unallocated = r.batch
      BY <1>9, <2>1, <2>4
  <2>6. r.status # "READY" BY <2>1
  <2>7. \A k \in DOMAIN r.fields : FALSE BY <2>1, <2>2
  <2>8. \A k \in DOMAIN r.allocations : FALSE BY <2>1, <2>2
  <2> QED BY <1>11, <2>3, <2>5, <2>6, <2>7, <2>8, Zenon DEF SoundPlan
<1>12. CASE in.tier # "PROHIBITED" /\ batch = None
  <2>1. /\ r.status = "REVIEW_REQUIRED" /\ r.fields = fs /\ r.allocations = <<>> /\ r.batch = None
      BY <1>10, <1>12, PlanParts
  <2>2. Granted(r.allocations, r.fields, in) /\ LeastConcern(r.allocations, r.fields)
      BY <2>1, NothingAllocated
  <2> QED BY <1>8, <1>12, <2>1, <2>2 DEF SoundPlan
<1>13. CASE in.tier # "PROHIBITED" /\ batch # None
  <2>1. /\ r.fields = fs /\ r.allocations = a /\ r.batch = batch
        /\ r.unallocated = left[n]
        /\ r.status = "READY" <=> left[n] = 0
      BY <1>10, <1>13, PlanParts
  <2>2. Conserved(a, left[n], batch) /\ Granted(a, fs, in) /\ LeastConcern(a, fs)
      BY <1>9, <1>13
  <2> QED BY <1>8, <1>13, <2>1, <2>2 DEF SoundPlan, Conserved
<1> QED BY <1>11, <1>12, <1>13

-----------------------------------------------------------------------------
(***************************************************************************)
(* The tables: evaluations, plans, and how they grow.                      *)
(***************************************************************************)

(* The types of the rows.                                                  *)
EvalStatus == {"RUNNING", "SUCCEEDED", "REVIEW_REQUIRED", "FAILED"}
EvalRow == [field : Fields, boundary : 1..(MaxChanges + 1), status : EvalStatus,
            critical : Nat, other : Nat,
            supplemental : {FALSE} \cup {o.supplemental : o \in Outcomes},
            facts : {NoFacts} \cup {o.facts : o \in Outcomes}, lost : BOOLEAN]
FieldRow == [ready : BOOLEAN, boundary : 1..(MaxChanges + 1)]

(* Every table but those of plans, clients and packages.                   *)
TablesTyped ==
    /\ report \in EvidenceInputs
    /\ profile \in Profiles
    /\ packs \in [Packs -> {"ABSENT", "ACTIVE", "RETIRED"}]
    /\ decided \subseteq {p \in Packs : packs[p] # "ABSENT"}
    /\ quantity \in Quantities \cup {None}
    /\ field \in [Fields -> FieldRow]
    /\ \A f \in Fields : field[f].boundary <= changes + 1
    /\ evals \in Seq(EvalRow)
    /\ response \in [Packs -> {"ABSENT", "RUNNING", "READY", "REVIEW_REQUIRED", "FAILED"}]
    /\ changes \in 0..MaxChanges

(* An evaluation as a plan saw it SUCCEEDED: its gaps are the same for      *)
(* good, and its status too, unless its lost answer made it FAILED since.   *)
Overruled(row) == row.status = "FAILED" /\ row.lost
Stood(row, in) ==
    /\ row.status = "SUCCEEDED" \/ Overruled(row)
    /\ row.critical = in.critical /\ row.other = in.other

(* What a step leaves of the row of an evaluation that SUCCEEDED or FAILED. *)
Settles(old, new) ==
    old.status \in {"SUCCEEDED", "FAILED"} =>
        /\ new.critical = old.critical /\ new.other = old.other /\ new.lost = old.lost
        /\ new.status = old.status \/ Overruled(new)

(* A plan is what the engine makes of its input; and the evaluation that    *)
(* input calls complete stands for good.                                    *)
Rests(in) ==
    \A m \in DOMAIN in.fields :
        LET e == in.fields[m].evaluation
        IN  /\ e \in {None} \cup DOMAIN evals
            /\ e # None /\ in.fields[m].physicalStatus = "SUCCEEDED" =>
                   Stood(evals[e], in.fields[m])

(* The row of a plan.                                                      *)
Made(x) ==
    /\ x.decision \in decided
    /\ PlanInput(x.input)
    /\ x.input.tier = tier(x.decision)
    /\ x.input.policyRate = matchedPolicyRate(x.decision)
    /\ x.result = EvaluatePlan(x.input)
    /\ Rests(x.input)

PlansMade == Listed(plans) /\ \A i \in DOMAIN plans : Made(plans[i])

(* What a step leaves of the tables a package is put together from.         *)
Grows ==
    /\ report' = report /\ profile' = profile
    /\ decided \subseteq decided'
    /\ \A i \in DOMAIN evals : i \in DOMAIN evals' /\ Settles(evals[i], evals'[i])
    /\ \A i \in DOMAIN plans : i \in DOMAIN plans' /\ plans'[i] = plans[i]

(* The latest evaluation of a field is in its table, if there is one.      *)
LEMMA LatestEvaluationIs ==
    ASSUME TablesTyped, NEW f
    PROVE  LatestEvaluation(f) = None \/ LatestEvaluation(f) \in DOMAIN evals
<1>1. PICK n \in Nat : n = Len(evals) /\ DOMAIN evals = 1..n BY DEF TablesTyped
<1>2. PICK T : T = Of(f) OBVIOUS
<1>3. T \subseteq 1..n BY <1>1, <1>2 DEF Of
<1>4. CASE T = {} BY <1>2, <1>4 DEF LatestEvaluation
<1>5. CASE T # {}
  <2>1. \E x \in T : \A y \in T : y <= x BY <1>3, <1>5, GreatestPosition
  <2>2. LatestEvaluation(f) = CHOOSE i \in T : \A j \in T : j <= i
      BY <1>2, <1>5 DEF LatestEvaluation
  <2>3. LatestEvaluation(f) \in T BY <2>1, <2>2
  <2> QED BY <1>1, <1>3, <2>3
<1> QED BY <1>4, <1>5

(* The latest plan of a decision is in its table.                          *)
LEMMA LatestPlanIs ==
    ASSUME Listed(plans), NEW p, GetLatestPlacementEvaluation(p) # None
    PROVE  GetLatestPlacementEvaluation(p) \in DOMAIN plans
<1>1. PICK S : S = {plans[i] : i \in DOMAIN plans} OBVIOUS
<1>2. plans \in Seq(S) BY <1>1 DEF Listed
<1>3. PICK n \in Nat : DOMAIN plans = 1..n BY <1>2
<1>4. PICK T : T = {i \in DOMAIN plans : plans[i].decision = p} OBVIOUS
<1>5. T \subseteq 1..n BY <1>3, <1>4
<1>6. T # {} BY <1>4 DEF GetLatestPlacementEvaluation
<1>7. \E x \in T : \A y \in T : y <= x BY <1>5, <1>6, GreatestPosition
<1>8. GetLatestPlacementEvaluation(p) = CHOOSE i \in T : \A j \in T : j <= i
    BY <1>4, <1>6 DEF GetLatestPlacementEvaluation
<1>9. GetLatestPlacementEvaluation(p) \in T BY <1>7, <1>8
<1> QED BY <1>4, <1>9

(* The input a plan is made from. *)
LEMMA ContextIsInput ==
    ASSUME TablesTyped, NEW p \in Packs, NEW q \in Quantities \cup {None},
           NEW in, in = GetPlacementContext(p, q)
    PROVE  /\ PlanInput(in) /\ Rests(in)
           /\ in.tier = tier(p) /\ in.policyRate = matchedPolicyRate(p)
<1>1. /\ in.tier = tier(p) /\ in.policyRate = matchedPolicyRate(p) /\ in.quantity = q
      /\ in.fields = loadFields
    BY DEF GetPlacementContext
<1>2. in.tier = "ELEVATED" => in.policyRate \in Nat
  <2>1. Pack[p].cap \in Nat BY PackAssumption DEF Packs
  <2> QED BY <1>1, <2>1 DEF matchedPolicyRate, matched
<1>3. PICK n \in Nat : n = Len(FieldOrder) /\ DOMAIN FieldOrder = 1..n BY FieldAssumption
<1>4. DOMAIN in.fields = 1..n /\ \A m \in 1..n : in.fields[m] = ListPlacementFieldInputs(m)
    BY <1>1, <1>3 DEF loadFields
<1>5. ASSUME NEW m \in 1..n
      PROVE  /\ FieldInput(in.fields[m])
             /\ in.fields[m].position = m
             /\ in.fields[m].field = FieldOrder[m]
             /\ in.fields[m].evaluation \in {None} \cup DOMAIN evals
             /\ in.fields[m].evaluation # None /\ in.fields[m].physicalStatus = "SUCCEEDED" =>
                    Stood(evals[in.fields[m].evaluation], in.fields[m])
  <2>1. PICK f : f = FieldOrder[m] OBVIOUS
  <2>2. f \in Fields BY <1>3, <2>1, FieldAssumption
  <2>3. PICK i : i = LatestEvaluation(f) OBVIOUS
  <2>4. i = None \/ i \in DOMAIN evals BY <2>3, LatestEvaluationIs
  <2>5. PICK e : e = IF i # None THEN evals[i]
             ELSE [status |-> "", critical |-> 0, other |-> 0, supplemental |-> FALSE,
                   facts |-> NoFacts]
      OBVIOUS
  <2>6. e.critical \in Nat /\ e.other \in Nat /\ (i # None => e = evals[i])
    <3>1. CASE i = None BY <2>5, <3>1
    <3>2. CASE i # None
      <4>1. e = evals[i] /\ evals[i] \in EvalRow BY <2>4, <2>5, <3>2 DEF TablesTyped
      <4> QED BY <4>1 DEF EvalRow
    <3> QED BY <3>1, <3>2
  <2>7. /\ profile[f].acres \in Nat \cup {None} /\ profile[f].agronomic \in Nat \cup {None}
        /\ profile[f].prior \in Nat \cup {None} /\ profile[f].road \in Int
      BY <2>2, ProfileAssumption DEF TablesTyped
  <2>8. /\ in.fields[m].position = m /\ in.fields[m].field = f /\ in.fields[m].evaluation = i
        /\ in.fields[m].acres = profile[f].acres /\ in.fields[m].agronomic = profile[f].agronomic
        /\ in.fields[m].prior = profile[f].prior /\ in.fields[m].road = profile[f].road
        /\ in.fields[m].critical = e.critical /\ in.fields[m].other = e.other
        /\ in.fields[m].physicalStatus = e.status
    <3>1. PICK x : x = ListPlacementFieldInputs(m) OBVIOUS
    <3>2. x = [field |-> f, position |-> m,
               status |-> IF field[f].ready THEN "READY" ELSE "NEEDS_DETAILS",
               rmpApproved |-> TRUE, acres |-> profile[f].acres,
               agronomic |-> profile[f].agronomic, prior |-> profile[f].prior,
               crop |-> profile[f].crop, road |-> profile[f].road, evaluation |-> i,
               physicalStatus |-> e.status, critical |-> e.critical, other |-> e.other,
               supplemental |-> e.supplemental, facts |-> e.facts]
        BY <2>1, <2>3, <2>5, <3>1, ZenonT(30) DEF ListPlacementFieldInputs
    <3>3. in.fields[m] = x BY <1>4, <3>1
    <3> QED BY <3>2, <3>3
  <2>9. FieldInput(in.fields[m]) BY <2>6, <2>7, <2>8 DEF FieldInput
  <2> QED BY <2>1, <2>4, <2>6, <2>8, <2>9 DEF Stood
<1>6. PlanInput(in) BY <1>1, <1>2, <1>3, <1>4, <1>5 DEF PlanInput
<1>7. Rests(in) BY <1>4, <1>5 DEF Rests
<1> QED BY <1>1, <1>6, <1>7

(* An evaluation starts: its row is the last one. *)
LEMMA StartKeeps ==
    ASSUME TablesTyped, NEW f \in Fields, StartEvaluation(f)
    PROVE  /\ evals' \in Seq(EvalRow)
           /\ \A i \in DOMAIN evals : i \in DOMAIN evals' /\ evals'[i] = evals[i]
<1> DEFINE x == [field |-> f, boundary |-> field[f].boundary, status |-> "RUNNING",
                 critical |-> 0, other |-> 0, supplemental |-> FALSE, facts |-> NoFacts,
                 lost |-> FALSE]
<1>1. field[f].boundary \in 1..(MaxChanges + 1) BY DEF TablesTyped, FieldRow
<1>2. x \in EvalRow BY <1>1 DEF EvalRow, EvalStatus
<1>3. evals \in Seq(EvalRow) BY DEF TablesTyped
<1>4. evals' = Append(evals, x) BY DEF StartEvaluation
<1> HIDE DEF x
<1> QED BY <1>2, <1>3, <1>4

(* An evaluation ends: one that has ended before is not touched.           *)
LEMMA EndKeeps ==
    ASSUME TablesTyped, NEW i \in DOMAIN evals, NEW o \in Outcomes, NEW lost \in BOOLEAN,
           EndEvaluation(i, o, lost)
    PROVE  /\ evals' \in Seq(EvalRow)
           /\ \A j \in DOMAIN evals : j \in DOMAIN evals' /\ Settles(evals[j], evals'[j])
<1>1. evals \in Seq(EvalRow) /\ evals[i] \in EvalRow BY DEF TablesTyped
<1> DEFINE x == [evals[i] EXCEPT !.status = o.status, !.critical = o.critical, !.other = o.other,
                                 !.supplemental = o.supplemental, !.facts = o.facts,
                                 !.lost = lost]
<1>2. evals' = [evals EXCEPT ![i] = x] BY DEF EndEvaluation
<1>3. o.status \in EvalStatus /\ o.critical \in Nat /\ o.other \in Nat
    BY OutcomeAssumption DEF EvalStatus
<1>4. /\ o.supplemental \in {FALSE} \cup {y.supplemental : y \in Outcomes}
      /\ o.facts \in {NoFacts} \cup {y.facts : y \in Outcomes}
    OBVIOUS
<1>5. x \in EvalRow BY <1>1, <1>3, <1>4 DEF EvalRow
<1> HIDE DEF x
<1>6. evals[i].status = "RUNNING" BY DEF EndEvaluation
<1>7. \A j \in DOMAIN evals : j # i => evals'[j] = evals[j] BY <1>1, <1>2
<1>8. evals' \in Seq(EvalRow) /\ DOMAIN evals' = DOMAIN evals BY <1>1, <1>2, <1>5
<1> QED BY <1>6, <1>7, <1>8 DEF Settles

(* A failure recorded over a lost answer changes the status and no more.   *)
LEMMA FailureKeeps ==
    ASSUME TablesTyped, NEW i \in DOMAIN evals, RecordFailure(i)
    PROVE  /\ evals' \in Seq(EvalRow)
           /\ \A j \in DOMAIN evals : j \in DOMAIN evals' /\ Settles(evals[j], evals'[j])
<1>1. evals \in Seq(EvalRow) /\ evals[i] \in EvalRow BY DEF TablesTyped
<1> DEFINE x == [evals[i] EXCEPT !.status = "FAILED"]
<1>2. evals' = [evals EXCEPT ![i] = x] BY DEF RecordFailure
<1>3. x \in EvalRow BY <1>1 DEF EvalRow, EvalStatus
<1>4. /\ x.status = "FAILED" /\ x.lost = evals[i].lost
      /\ x.critical = evals[i].critical /\ x.other = evals[i].other
    BY <1>1 DEF EvalRow
<1>5. evals[i].lost BY DEF RecordFailure
<1> HIDE DEF x
<1>6. /\ evals' \in Seq(EvalRow) /\ DOMAIN evals' = DOMAIN evals /\ evals'[i] = x
      /\ \A j \in DOMAIN evals : j # i => evals'[j] = evals[j]
    BY <1>1, <1>2, <1>3
<1>7. Settles(evals[i], x) BY <1>4, <1>5 DEF Settles, Overruled
<1>8. \A j \in DOMAIN evals : Settles(evals[j], evals[j]) BY DEF Settles
<1> QED BY <1>6, <1>7, <1>8

(* A plan is the last row of its table, made from its context.             *)
LEMMA PlanKeeps ==
    ASSUME Listed(plans), NEW p \in Packs, NEW q \in Quantities \cup {None}, CreatePlan(p, q)
    PROVE  /\ Listed(plans')
           /\ \A i \in DOMAIN plans : i \in DOMAIN plans' /\ plans'[i] = plans[i]
           /\ \A i \in DOMAIN plans' \ DOMAIN plans : \E used \in {q, quantity} :
                /\ plans'[i].decision = p
                /\ plans'[i].input = GetPlacementContext(p, used)
                /\ plans'[i].result = EvaluatePlan(GetPlacementContext(p, used))
<1>1. PICK used : used = IF q # None THEN q ELSE quantity OBVIOUS
<1>2. PICK in : in = GetPlacementContext(p, used) OBVIOUS
<1> DEFINE x == [decision |-> p, input |-> in, boundary |-> [f \in Fields |-> field[f].boundary],
                 result |-> EvaluatePlan(in)]
<1>3. plans' = plans \/ plans' = Append(plans, x)
    BY <1>1, <1>2 DEF CreatePlan, CreatePlacementEvaluation
<1>4. x.decision = p /\ x.input = in /\ x.result = EvaluatePlan(in) OBVIOUS
<1>5. used \in {q, quantity} BY <1>1
<1> HIDE DEF x
<1>6. CASE plans' = plans BY <1>6
<1>7. CASE plans' = Append(plans, x)
  <2>1. /\ Listed(plans')
        /\ Len(plans) \in Nat /\ DOMAIN plans = 1..Len(plans)
        /\ DOMAIN plans' = 1..(Len(plans) + 1)
        /\ plans'[Len(plans) + 1] = x
        /\ \A i \in 1..Len(plans) : plans'[i] = plans[i]
      BY <1>7, ListedAppend
  <2>2. \A i \in DOMAIN plans' \ DOMAIN plans : plans'[i] = x BY <2>1
  <2>3. \A i \in DOMAIN plans : i \in DOMAIN plans' BY <2>1
  <2> QED BY <1>2, <1>4, <1>5, <2>1, <2>2, <2>3
<1> QED BY <1>3, <1>6, <1>7

(* Steps that touch neither evaluations, plans, clients nor packages.      *)
LEMMA OthersKeep ==
    ASSUME NEW p \in Packs,
           \/ EnsureRulePacks(p) \/ RetirePack(p) \/ Classify(p) \/ RespondTo(p)
           \/ \E f \in Fields : ConfirmBoundary(f) \/ UpdateDetails(f)
    PROVE  /\ UNCHANGED <<report, profile, evals, plans, packages, client>>
           /\ decided \subseteq decided'
BY DEF EnsureRulePacks, RetirePack, Classify, CreateBatchPolicyDecision, RespondTo,
       ConfirmBoundary, UpdateDetails, outside

(* Every step only adds to what packages are made of.                      *)
LEMMA StepGrows ==
    ASSUME TablesTyped, Listed(plans), Next
    PROVE  Grows
<1>s. \A row : Settles(row, row) BY DEF Settles
<1>1. ASSUME UNCHANGED <<report, profile, evals, plans>>, decided \subseteq decided' PROVE Grows
    BY <1>1, <1>s DEF Grows
<1>2. ASSUME NEW p \in Packs, EnsureRulePacks(p) \/ RetirePack(p) \/ Classify(p) \/ RespondTo(p)
      PROVE Grows
    BY <1>1, <1>2, OthersKeep
<1>3. ASSUME NEW p \in Packs, NEW q \in Quantities \cup {None}, CreatePlan(p, q) PROVE Grows
  <2>1. UNCHANGED <<report, profile, evals, decided>> BY <1>3 DEF CreatePlan, outside
  <2> QED BY <1>3, <1>s, <2>1, PlanKeeps DEF Grows
<1>4. ASSUME NEW f \in Fields, ConfirmBoundary(f) \/ UpdateDetails(f) PROVE Grows
    BY <1>1, <1>4 DEF ConfirmBoundary, UpdateDetails, outside
<1>5. ASSUME NEW f \in Fields, StartEvaluation(f) PROVE Grows
  <2>1. UNCHANGED <<report, profile, plans, decided>> BY <1>5 DEF StartEvaluation, outside
  <2>2. \A i \in DOMAIN evals : i \in DOMAIN evals' /\ evals'[i] = evals[i] BY <1>5, StartKeeps
  <2> QED BY <1>s, <2>1, <2>2 DEF Grows
<1>6. ASSUME NEW i \in DOMAIN evals,
             \/ \E o \in Outcomes, lost \in BOOLEAN : EndEvaluation(i, o, lost)
             \/ RecordFailure(i)
      PROVE  Grows
  <2>1. UNCHANGED <<report, profile, plans, decided>>
      BY <1>6 DEF EndEvaluation, RecordFailure, outside
  <2>2. \A j \in DOMAIN evals : j \in DOMAIN evals' /\ Settles(evals[j], evals'[j])
      BY <1>6, EndKeeps, FailureKeeps
  <2> QED BY <2>1, <2>2 DEF Grows
<1>7. ASSUME NEW c \in Clients,
             \/ \E d, p \in Packs : GetDecision(c, d, p)
             \/ ReadPlan(c) \/ ReadResponse(c) \/ ReadEvidence(c) \/ Store(c) \/ Abandon(c)
      PROVE  Grows
  <2>1. \E x : Step(c, x)
      BY <1>7, Zenon DEF GetDecision, ReadPlan, ReadResponse, ReadEvidence, Store, Abandon
  <2>2. UNCHANGED <<report, profile, evals, plans, decided>> BY <2>1 DEF Step, outside
  <2> QED BY <1>1, <2>2
<1> QED BY <1>2, <1>3, <1>4, <1>5, <1>6, <1>7, Zenon DEF Next

(* Every step keeps the types of the tables.                               *)
LEMMA TablesStep ==
    ASSUME TablesTyped, Next
    PROVE  TablesTyped'
<1> USE BoundsAssumption
<1>0. changes \in 0..MaxChanges BY DEF TablesTyped
<1>1. ASSUME Change PROVE changes' \in 0..MaxChanges /\ changes' = changes + 1
    BY <1>0, <1>1 DEF Change
<1>2. ASSUME NEW p \in Packs, EnsureRulePacks(p) PROVE TablesTyped'
  <2>1. /\ packs' = [packs EXCEPT ![p] = "ACTIVE"] /\ Change
        /\ UNCHANGED <<report, profile, decided, quantity, field, evals, response>>
      BY <1>2 DEF EnsureRulePacks, InsertPolicyRulePack, outside
  <2> QED BY <1>0, <1>1, <2>1 DEF TablesTyped, FieldRow
<1>3. ASSUME NEW p \in Packs, RetirePack(p) PROVE TablesTyped'
  <2>1. /\ packs' = [packs EXCEPT ![p] = "RETIRED"]
        /\ UNCHANGED <<report, profile, decided, quantity, field, evals, response, changes>>
      BY <1>3 DEF RetirePack, outside
  <2> QED BY <2>1 DEF TablesTyped
<1>4. ASSUME NEW p \in Packs, Classify(p) PROVE TablesTyped'
  <2>1. /\ decided' = decided \cup {p} /\ packs[p] = "ACTIVE"
        /\ UNCHANGED <<report, profile, packs, quantity, field, evals, response, changes>>
      BY <1>4 DEF Classify, activeRulePack, ListApplicablePolicyRulePacks,
                  CreateBatchPolicyDecision, outside
  <2> QED BY <2>1 DEF TablesTyped
<1>5. ASSUME NEW p \in Packs, RespondTo(p) PROVE TablesTyped'
  <2>1. PICK s \in {"RUNNING", "READY", "REVIEW_REQUIRED", "FAILED"} :
             /\ changes' = changes \/ Change
             /\ response' = [response EXCEPT ![p] = s]
      BY <1>5 DEF RespondTo
  <2>2. UNCHANGED <<report, profile, packs, decided, quantity, field, evals>>
      BY <1>5 DEF RespondTo, outside
  <2>3. changes' \in 0..MaxChanges /\ changes' >= changes BY <1>0, <1>1, <2>1
  <2> QED BY <1>0, <2>1, <2>2, <2>3 DEF TablesTyped, FieldRow
<1>6. ASSUME NEW p \in Packs, NEW q \in Quantities \cup {None}, CreatePlan(p, q)
      PROVE  TablesTyped'
  <2>1. quantity' \in {q, quantity} BY <1>6 DEF CreatePlan, UpdatePlacementBatchQuantity
  <2>2. UNCHANGED <<report, profile, packs, decided, field, evals, response, changes>>
      BY <1>6 DEF CreatePlan, outside
  <2> QED BY <2>1, <2>2 DEF TablesTyped
<1>7. ASSUME NEW f \in Fields, ConfirmBoundary(f) PROVE TablesTyped'
  <2>1. /\ field' = [field EXCEPT ![f].boundary = @ + 1] /\ Change
        /\ UNCHANGED <<report, profile, packs, decided, quantity, evals, response>>
      BY <1>7 DEF ConfirmBoundary, outside
  <2>2. field \in [Fields -> FieldRow] /\ \A g \in Fields : field[g].boundary <= changes + 1
      BY DEF TablesTyped
  <2>3. \A g \in Fields : field[g].boundary \in 1..(MaxChanges + 1) BY <2>2 DEF FieldRow
  <2>4. field[f].boundary + 1 \in 1..(MaxChanges + 1) BY <1>0, <1>1, <2>1, <2>2, <2>3
  <2>5. field' \in [Fields -> FieldRow] BY <2>1, <2>2, <2>4 DEF FieldRow
  <2>6. \A g \in Fields : field'[g].boundary <= changes' + 1
      BY <1>0, <1>1, <2>1, <2>2, <2>3 DEF FieldRow
  <2> QED BY <1>1, <2>1, <2>5, <2>6 DEF TablesTyped
<1>8. ASSUME NEW f \in Fields, UpdateDetails(f) PROVE TablesTyped'
  <2>1. /\ field' = [field EXCEPT ![f].ready = ~@] /\ Change
        /\ UNCHANGED <<report, profile, packs, decided, quantity, evals, response>>
      BY <1>8 DEF UpdateDetails, outside
  <2>2. field \in [Fields -> FieldRow] /\ \A g \in Fields : field[g].boundary <= changes + 1
      BY DEF TablesTyped
  <2>3. field' \in [Fields -> FieldRow] BY <2>1, <2>2 DEF FieldRow
  <2>4. \A g \in Fields : field'[g].boundary = field[g].boundary BY <2>1, <2>2 DEF FieldRow
  <2>5. \A g \in Fields : field'[g].boundary <= changes' + 1
      BY <1>0, <1>1, <2>1, <2>2, <2>4 DEF FieldRow
  <2> QED BY <1>1, <2>1, <2>3, <2>5 DEF TablesTyped
<1>9. ASSUME NEW f \in Fields, StartEvaluation(f) PROVE TablesTyped'
  <2>1. UNCHANGED <<report, profile, packs, decided, quantity, field, response, changes>>
      BY <1>9 DEF StartEvaluation, outside
  <2>2. evals' \in Seq(EvalRow) BY <1>9, StartKeeps
  <2> QED BY <2>1, <2>2 DEF TablesTyped
<1>10. ASSUME NEW i \in DOMAIN evals,
              \/ \E o \in Outcomes, lost \in BOOLEAN : EndEvaluation(i, o, lost)
              \/ RecordFailure(i)
       PROVE  TablesTyped'
  <2>1. /\ UNCHANGED <<report, profile, packs, decided, quantity, field, response>>
        /\ changes' = changes \/ Change
      BY <1>10 DEF EndEvaluation, RecordFailure, outside
  <2>2. evals' \in Seq(EvalRow) BY <1>10, EndKeeps, FailureKeeps
  <2>3. \A f \in Fields : field[f].boundary <= changes' + 1
      BY <1>0, <1>1, <2>1 DEF TablesTyped, FieldRow
  <2> QED BY <1>1, <2>1, <2>2, <2>3 DEF TablesTyped
<1>11. ASSUME NEW c \in Clients,
             \/ \E d, p \in Packs : GetDecision(c, d, p)
             \/ ReadPlan(c) \/ ReadResponse(c) \/ ReadEvidence(c) \/ Store(c) \/ Abandon(c)
       PROVE  TablesTyped'
  <2>1. \E x : Step(c, x)
      BY <1>11, Zenon DEF GetDecision, ReadPlan, ReadResponse, ReadEvidence, Store, Abandon
  <2>2. UNCHANGED <<report, profile, packs, decided, quantity, field, evals, response, changes>>
      BY <2>1 DEF Step, outside
  <2> QED BY <2>2 DEF TablesTyped
<1> QED BY <1>2, <1>3, <1>4, <1>5, <1>6, <1>7, <1>8, <1>9, <1>10, <1>11, Zenon DEF Next

(* The tier of a decision and its rate depend on the report alone.         *)
LEMMA TierStays ==
    ASSUME report' = report, NEW p
    PROVE  tier(p)' = tier(p) /\ matchedPolicyRate(p)' = matchedPolicyRate(p)
BY DEF tier, GetConfirmedReportForClassification, matchedPolicyRate

(* A plan that is made stays so.                                           *)
LEMMA MadeStays ==
    ASSUME Grows, NEW x, Made(x)
    PROVE  Made(x)'
<1>1. /\ x.decision \in decided' /\ tier(x.decision)' = tier(x.decision)
      /\ matchedPolicyRate(x.decision)' = matchedPolicyRate(x.decision)
    BY TierStays DEF Grows, Made
<1>2. Rests(x.input)'
  <2> SUFFICES ASSUME NEW m \in DOMAIN x.input.fields, NEW e, e = x.input.fields[m].evaluation
               PROVE  /\ e \in {None} \cup DOMAIN evals'
                      /\ e # None /\ x.input.fields[m].physicalStatus = "SUCCEEDED" =>
                             Stood(evals'[e], x.input.fields[m])
      BY DEF Rests, Stood, Overruled
  <2>1. /\ e \in {None} \cup DOMAIN evals
        /\ e # None /\ x.input.fields[m].physicalStatus = "SUCCEEDED" =>
               Stood(evals[e], x.input.fields[m])
      BY DEF Made, Rests
  <2>2. e # None => e \in DOMAIN evals' /\ Settles(evals[e], evals'[e]) BY <2>1 DEF Grows
  <2> QED BY <2>1, <2>2 DEF Stood, Settles, Overruled
<1>3. /\ x.decision \in decided'
      /\ PlanInput(x.input)
      /\ x.input.tier = tier(x.decision)'
      /\ x.input.policyRate = matchedPolicyRate(x.decision)'
      /\ x.result = EvaluatePlan(x.input)
    BY <1>1 DEF Made
<1> QED BY <1>2, <1>3 DEF Made

(* Every step keeps the plans.                                             *)
LEMMA PlansStep ==
    ASSUME TablesTyped, PlansMade, Next
    PROVE  PlansMade'
<1>0. Grows BY StepGrows DEF PlansMade
<1>1. ASSUME NEW i, i \in DOMAIN plans PROVE Made(plans[i])'
  <2>1. PICK x : x = plans[i] OBVIOUS
  <2>2. Made(x)' BY <1>0, <1>1, <2>1, MadeStays DEF PlansMade
  <2>3. plans'[i] = x BY <1>0, <1>1, <2>1 DEF Grows
  <2> QED BY <2>2, <2>3 DEF Made, Rests, Stood, Overruled
<1>2. CASE plans' = plans
  <2>1. \A i \in DOMAIN plans' : Made(plans[i])' BY <1>1, <1>2
  <2>2. Listed(plans') BY <1>2 DEF PlansMade
  <2> QED BY <2>1, <2>2 DEF PlansMade
<1>3. ASSUME NEW p \in Packs, NEW q \in Quantities \cup {None}, CreatePlan(p, q)
      PROVE  PlansMade'
  <2>1. Listed(plans') BY <1>3, PlanKeeps DEF PlansMade
  <2>2. ASSUME NEW i \in DOMAIN plans', i \notin DOMAIN plans PROVE Made(plans[i])'
    <3>1. PICK used \in {q, quantity} :
                /\ plans'[i].decision = p
                /\ plans'[i].input = GetPlacementContext(p, used)
                /\ plans'[i].result = EvaluatePlan(GetPlacementContext(p, used))
        BY <1>3, <2>2, PlanKeeps DEF PlansMade
    <3>2. used \in Quantities \cup {None} BY DEF TablesTyped
    <3>3. PICK in : in = GetPlacementContext(p, used) OBVIOUS
    <3>4. /\ PlanInput(in) /\ Rests(in)
          /\ in.tier = tier(p) /\ in.policyRate = matchedPolicyRate(p)
        BY <3>2, <3>3, ContextIsInput
    <3>5. p \in decided BY <1>3 DEF CreatePlan
    <3>6. PICK y : y = plans'[i] OBVIOUS
    <3>7. Made(y) BY <3>1, <3>3, <3>4, <3>5, <3>6 DEF Made
    <3>8. Made(y)' BY <1>0, <3>7, MadeStays
    <3> QED BY <3>6, <3>8 DEF Made, Rests, Stood, Overruled
  <2> QED BY <1>1, <2>1, <2>2 DEF PlansMade
<1>4. ASSUME NEW c \in Clients,
             \/ \E d, p \in Packs : GetDecision(c, d, p)
             \/ ReadPlan(c) \/ ReadResponse(c) \/ ReadEvidence(c) \/ Store(c) \/ Abandon(c)
      PROVE  plans' = plans
  <2>1. \E x : Step(c, x)
      BY <1>4, Zenon DEF GetDecision, ReadPlan, ReadResponse, ReadEvidence, Store, Abandon
  <2> QED BY <2>1 DEF Step
<1>5. ASSUME NEW p \in Packs, EnsureRulePacks(p) \/ RetirePack(p) \/ Classify(p) \/ RespondTo(p)
      PROVE  plans' = plans
    BY <1>5, OthersKeep
<1>6. ASSUME NEW f \in Fields, ConfirmBoundary(f) \/ UpdateDetails(f) \/ StartEvaluation(f)
      PROVE  plans' = plans
    BY <1>6 DEF ConfirmBoundary, UpdateDetails, StartEvaluation
<1>7. ASSUME NEW i \in DOMAIN evals,
             \/ \E o \in Outcomes, lost \in BOOLEAN : EndEvaluation(i, o, lost)
             \/ RecordFailure(i)
      PROVE  plans' = plans
    BY <1>7 DEF EndEvaluation, RecordFailure
<1> QED BY <1>2, <1>3, <1>4, <1>5, <1>6, <1>7, Zenon DEF Next

(* What a plan allocates rests on an evaluation that it saw SUCCEEDED.     *)
LEMMA AllocatedRests ==
    ASSUME TablesTyped, NEW x, Made(x), NEW k \in DOMAIN x.result.allocations
    PROVE  LET a == x.result.allocations[k]
           IN  /\ a.evaluation # None
               /\ \E j \in DOMAIN x.result.fields : x.result.fields[j].evaluation = a.evaluation
               /\ \E m \in DOMAIN x.input.fields :
                    /\ x.input.fields[m].field = a.field
                    /\ x.input.fields[m].evaluation = a.evaluation
                    /\ x.input.fields[m].physicalStatus = "SUCCEEDED"
                    /\ x.input.fields[m].critical = 0 /\ x.input.fields[m].other \in Nat
<1>1. PICK in : in = x.input OBVIOUS
<1>2. PICK r : r = x.result OBVIOUS
<1>3. PlanInput(in) /\ SoundPlan(r, in) BY <1>1, <1>2, PlanIsSound DEF Made
<1>4. PICK j \in DOMAIN r.fields, m \in DOMAIN in.fields :
            /\ r.fields[j] = Found(in, m)
            /\ r.fields[j].disposition = "ELIGIBLE"
            /\ r.allocations[k].evaluation = r.fields[j].evaluation
            /\ r.allocations[k].field = r.fields[j].field
    BY <1>2, <1>3 DEF SoundPlan, Granted
<1>5. m \in 1..Len(FieldOrder) BY <1>3 DEF PlanInput
<1>6. PICK f : f = r.fields[j] OBVIOUS
<1>7. /\ f.field = FieldOrder[m] /\ f.evaluation = in.fields[m].evaluation
      /\ Fits(f, in.fields[m], in.tier, in.policyRate)
    BY <1>3, <1>4, <1>5, <1>6, FoundIs
<1>8. in.fields[m].field = FieldOrder[m] /\ in.fields[m].other \in Nat
    BY <1>3, <1>5 DEF PlanInput, FieldInput
<1> QED BY <1>1, <1>2, <1>4, <1>6, <1>7, <1>8 DEF Fits

(* A planned field has been evaluated. *)
LEMMA PlannedEvaluations ==
    ASSUME TablesTyped, NEW x, Made(x), NEW k \in DOMAIN x.result.fields
    PROVE  x.result.fields[k].evaluation \in {None} \cup DOMAIN evals
<1>1. PICK in : in = x.input OBVIOUS
<1>2. PICK r : r = x.result OBVIOUS
<1>3. PlanInput(in) /\ Rests(in) /\ SoundPlan(r, in) BY <1>1, <1>2, PlanIsSound DEF Made
<1>4. PICK m \in DOMAIN in.fields : r.fields[k] = Found(in, m) BY <1>2, <1>3 DEF SoundPlan
<1>5. m \in 1..Len(FieldOrder) BY <1>3 DEF PlanInput
<1>6. PICK f : f = r.fields[k] OBVIOUS
<1>7. f.evaluation = in.fields[m].evaluation BY <1>3, <1>4, <1>5, <1>6, FoundIs
<1> QED BY <1>2, <1>3, <1>6, <1>7 DEF Rests

-----------------------------------------------------------------------------
(***************************************************************************)
(* The clients: what a package has read so far.                            *)
(***************************************************************************)

(* The types of what clients read.                                         *)
PhysicalRow == [id : Nat, status : EvalStatus, gaps : Nat]
Snapshot == [decision : Packs \cup {None}, quantity : Quantities \cup {None},
             plan : Nat \cup {None}, response : {None, "READY", "REVIEW_REQUIRED"},
             physical : SUBSET PhysicalRow]
ClientRow == [at : {"idle", "plan", "response", "evidence"}, decision : Packs \cup {None},
              snapshot : Snapshot]

(* What has been read of a plan, of a response and of the evaluations.     *)
PlanRead(s) ==
    \/ tier(s.decision) \in {"STANDARD", "ELEVATED"} /\ s.plan \in DOMAIN plans
    \/ tier(s.decision) = "PROHIBITED" /\ s.plan = None
ResponseRead(s) ==
    \/ /\ tier(s.decision) \in {"ELEVATED", "PROHIBITED"}
       /\ s.response \in {"READY", "REVIEW_REQUIRED"}
    \/ tier(s.decision) = "STANDARD" /\ s.response = None
ReadAs(e, in) ==
    in.evaluation = e.id /\ in.physicalStatus = "SUCCEEDED" =>
        /\ e.gaps = in.critical + in.other
        /\ e.status = "SUCCEEDED" \/ (e.status = "FAILED" /\ Overruled(evals[e.id]))
EvidenceRead(s) ==
    \A e \in s.physical :
        /\ e.id \in DOMAIN evals
        /\ s.plan # None =>
             \A m \in DOMAIN plans[s.plan].input.fields : ReadAs(e, plans[s.plan].input.fields[m])

(* A request that has come to its step x.at has read this so far.          *)
Asked(x) ==
    /\ x \in ClientRow
    /\ x.at = "idle" => x.snapshot.plan = None
    /\ x.at # "idle" => /\ x.decision \in decided
                        /\ tier(x.snapshot.decision) # "UNDETERMINED"
    /\ x.at = "plan" => /\ x.snapshot.plan = None
                        /\ x.snapshot.response = None /\ x.snapshot.physical = {}
    /\ x.at = "response" => /\ PlanRead(x.snapshot)
                            /\ x.snapshot.response = None /\ x.snapshot.physical = {}
    /\ x.at = "evidence" => /\ PlanRead(x.snapshot)
                            /\ ResponseRead(x.snapshot)
                            /\ EvidenceRead(x.snapshot)

ClientsAsk == client = [c \in Clients |-> client[c]] /\ \A c \in Clients : Asked(client[c])

(* What is read stays true while the tables grow.                          *)
LEMMA ReadsStay ==
    ASSUME Grows, NEW s
    PROVE  /\ PlanRead(s) => PlanRead(s)'
           /\ ResponseRead(s) => ResponseRead(s)'
           /\ EvidenceRead(s) /\ s.plan \in {None} \cup DOMAIN plans => EvidenceRead(s)'
<1>1. tier(s.decision)' = tier(s.decision) BY TierStays DEF Grows
<1>2. PlanRead(s) => PlanRead(s)' BY <1>1 DEF PlanRead, Grows
<1>3. ResponseRead(s) => ResponseRead(s)' BY <1>1 DEF ResponseRead
<1>4. ASSUME EvidenceRead(s), s.plan \in {None} \cup DOMAIN plans PROVE EvidenceRead(s)'
  <2>1. PICK x : x = plans[s.plan] OBVIOUS
  <2>2. s.plan # None => plans'[s.plan] = x BY <1>4, <2>1 DEF Grows
  <2>3. ASSUME NEW e \in s.physical
        PROVE  /\ e.id \in DOMAIN evals'
               /\ s.plan # None => \A m \in DOMAIN x.input.fields : ReadAs(e, x.input.fields[m])'
    <3>1. e.id \in DOMAIN evals' /\ Settles(evals[e.id], evals'[e.id])
        BY <1>4 DEF EvidenceRead, Grows
    <3>2. Overruled(evals[e.id]) => Overruled(evals'[e.id]) BY <3>1 DEF Settles, Overruled
    <3>3. ASSUME s.plan # None, NEW m \in DOMAIN x.input.fields PROVE ReadAs(e, x.input.fields[m])'
      <4>1. PICK in : in = x.input.fields[m] OBVIOUS
      <4>2. ReadAs(e, in) BY <1>4, <2>1, <3>3, <4>1 DEF EvidenceRead
      <4> QED BY <3>2, <4>1, <4>2 DEF ReadAs, Overruled
    <3> QED BY <3>1, <3>3
  <2> QED BY <2>2, <2>3 DEF EvidenceRead, ReadAs, Overruled
<1> QED BY <1>2, <1>3, <1>4

(* So does all of a request.                                               *)
LEMMA AskedStays ==
    ASSUME Grows, NEW x, Asked(x)
    PROVE  Asked(x)'
<1>1. PICK s : s = x.snapshot OBVIOUS
<1>2. tier(s.decision)' = tier(s.decision) BY TierStays DEF Grows
<1>3. /\ PlanRead(s) => PlanRead(s)'
      /\ ResponseRead(s) => ResponseRead(s)'
      /\ EvidenceRead(s) /\ s.plan \in {None} \cup DOMAIN plans => EvidenceRead(s)'
    BY ReadsStay
<1>4. PlanRead(s) => s.plan \in {None} \cup DOMAIN plans BY DEF PlanRead
<1>5. x.decision \in decided => x.decision \in decided' BY DEF Grows
<1>6. /\ x.at = "response" => PlanRead(s)'
      /\ x.at = "evidence" => PlanRead(s)' /\ ResponseRead(s)' /\ EvidenceRead(s)'
    BY <1>1, <1>3, <1>4 DEF Asked
<1>7. /\ x.at = "response" => PlanRead(x.snapshot)'
      /\ x.at = "evidence" =>
           PlanRead(x.snapshot)' /\ ResponseRead(x.snapshot)' /\ EvidenceRead(x.snapshot)'
      /\ tier(x.snapshot.decision)' = tier(x.snapshot.decision)
    BY <1>1, <1>2, <1>6
<1> QED BY <1>5, <1>7 DEF Asked

(* Each read of a request adds what was found to its snapshot.             *)
LEMMA GetDecisionAsks ==
    ASSUME TablesTyped, NEW c \in Clients, NEW d \in Packs, NEW p \in Packs, GetDecision(c, d, p)
    PROVE  \E x : Asked(x) /\ Step(c, x)
<1> DEFINE s == [NoSnapshot EXCEPT !.decision = p, !.quantity = quantity]
           x == [at |-> "plan", decision |-> d, snapshot |-> s]
<1>1. /\ s \in Snapshot /\ s.decision = p /\ s.plan = None /\ s.response = None /\ s.physical = {}
    BY DEF NoSnapshot, Snapshot, TablesTyped
<1>2. d \in decided /\ tier(p) # "UNDETERMINED" /\ Step(c, x)
    BY DEF GetDecision, GetDecisionPackageContext
<1> HIDE DEF s
<1>3. x \in ClientRow BY <1>1 DEF ClientRow
<1>4. x.at = "plan" /\ x.decision = d /\ x.snapshot = s OBVIOUS
<1> HIDE DEF x
<1>5. Asked(x) BY <1>1, <1>2, <1>3, <1>4 DEF Asked
<1> QED BY <1>2, <1>5

(* A request that goes on has read what its next step expects.             *)
LEMMA ReadStep ==
    ASSUME NEW c \in Clients, Asked(client[c]), client[c].at # "idle",
           NEW at \in {"response", "evidence"}, NEW s \in Snapshot,
           s.decision = client[c].snapshot.decision,
           at = "response" => PlanRead(s) /\ s.response = None /\ s.physical = {},
           at = "evidence" => PlanRead(s) /\ ResponseRead(s) /\ EvidenceRead(s)
    PROVE  Asked(Read(c, at, s))
<1>1. PICK x : x = Read(c, at, s) OBVIOUS
<1>2. client[c] \in ClientRow BY DEF Asked
<1>3. x = [client[c] EXCEPT !.at = at, !.snapshot = s] BY <1>1 DEF Read
<1>4. x \in ClientRow /\ x.at = at /\ x.snapshot = s /\ x.decision = client[c].decision
    BY <1>2, <1>3 DEF ClientRow
<1>5. x.decision \in decided /\ tier(s.decision) # "UNDETERMINED" BY <1>4 DEF Asked
<1>6. Asked(x) BY <1>4, <1>5 DEF Asked
<1> QED BY <1>1, <1>6

(* The plan: the latest one of the decision, or none for a prohibited batch. *)
LEMMA ReadPlanAsks ==
    ASSUME Listed(plans), NEW c \in Clients, Asked(client[c]), ReadPlan(c)
    PROVE  \E x : Asked(x) /\ Step(c, x)
<1>1. PICK s : s = Packed(c) OBVIOUS
<1>2. /\ client[c].at = "plan" /\ s \in Snapshot
      /\ s.plan = None /\ s.response = None /\ s.physical = {}
      /\ client[c].snapshot = s
    BY <1>1 DEF ReadPlan, At, Asked, ClientRow, Packed
<1>3. CASE /\ TierPacked(c) \in {"STANDARD", "ELEVATED"}
           /\ GetLatestPlacementEvaluation(client[c].decision) # None
           /\ Step(c, Read(c, "response",
                [Packed(c) EXCEPT !.plan = GetLatestPlacementEvaluation(client[c].decision)]))
  <2>1. PICK i : i = GetLatestPlacementEvaluation(client[c].decision) OBVIOUS
  <2>2. i \in DOMAIN plans BY <1>3, <2>1, LatestPlanIs
  <2>3. i \in Nat
    <3>1. PICK S : S = {plans[k] : k \in DOMAIN plans} OBVIOUS
    <3>2. plans \in Seq(S) BY <3>1 DEF Listed
    <3> QED BY <2>2, <3>2
  <2>4. PICK y : y = [s EXCEPT !.plan = i] OBVIOUS
  <2>5. /\ y \in Snapshot /\ y.decision = s.decision
        /\ y.plan = i /\ y.response = None /\ y.physical = {}
      BY <1>2, <2>3, <2>4 DEF Snapshot
  <2>6. PlanRead(y) BY <1>1, <1>3, <2>2, <2>5 DEF PlanRead, TierPacked
  <2>7. Asked(Read(c, "response", y)) BY <1>2, <2>5, <2>6, ReadStep
  <2> QED BY <1>1, <1>3, <2>1, <2>4, <2>7
<1>4. CASE /\ TierPacked(c) = "PROHIBITED"
           /\ Step(c, Read(c, "response", Packed(c)))
  <2>1. PlanRead(s) BY <1>1, <1>2, <1>4 DEF PlanRead, TierPacked
  <2>2. Asked(Read(c, "response", s)) BY <1>2, <2>1, ReadStep
  <2> QED BY <1>1, <1>4, <2>2
<1> QED BY <1>3, <1>4 DEF ReadPlan

(* The response, of decisions above STANDARD.                              *)
LEMMA ReadResponseAsks ==
    ASSUME NEW c \in Clients, Asked(client[c]), ReadResponse(c)
    PROVE  \E x : Asked(x) /\ Step(c, x)
<1>1. PICK s : s = Packed(c) OBVIOUS
<1>2. /\ client[c].at = "response" /\ s \in Snapshot
      /\ PlanRead(s) /\ s.response = None /\ s.physical = {}
      /\ client[c].snapshot = s
    BY <1>1 DEF ReadResponse, At, Asked, ClientRow, Packed
<1>3. CASE /\ TierPacked(c) \in {"ELEVATED", "PROHIBITED"}
           /\ Responded(response[client[c].decision])
           /\ Step(c, Read(c, "evidence",
                  [Packed(c) EXCEPT !.response = response[client[c].decision]]))
  <2>1. PICK r : r = response[client[c].decision] OBVIOUS
  <2>2. r \in {"READY", "REVIEW_REQUIRED"} BY <1>3, <2>1 DEF Responded
  <2>3. PICK y : y = [s EXCEPT !.response = r] OBVIOUS
  <2>4. /\ y \in Snapshot /\ y.decision = s.decision
        /\ y.plan = s.plan /\ y.response = r /\ y.physical = {}
      BY <1>2, <2>2, <2>3 DEF Snapshot
  <2>5. PlanRead(y) BY <1>2, <2>4 DEF PlanRead
  <2>6. ResponseRead(y) BY <1>1, <1>3, <2>2, <2>4 DEF ResponseRead, TierPacked
  <2>7. EvidenceRead(y) BY <2>4 DEF EvidenceRead
  <2>8. Asked(Read(c, "evidence", y)) BY <1>2, <2>4, <2>5, <2>6, <2>7, ReadStep
  <2> QED BY <1>1, <1>3, <2>1, <2>3, <2>8
<1>4. CASE /\ TierPacked(c) = "STANDARD"
           /\ Step(c, Read(c, "evidence", Packed(c)))
  <2>1. ResponseRead(s) BY <1>1, <1>2, <1>4 DEF ResponseRead, TierPacked
  <2>2. EvidenceRead(s) BY <1>2 DEF EvidenceRead
  <2>3. Asked(Read(c, "evidence", s)) BY <1>2, <2>1, <2>2, ReadStep
  <2> QED BY <1>1, <1>4, <2>3
<1> QED BY <1>3, <1>4 DEF ReadResponse

(* The evaluations: those a plan saw SUCCEEDED are read with the same gaps *)
(* and, but for a failure recorded over a lost answer, the same status.    *)
LEMMA ReadEvidenceAsks ==
    ASSUME TablesTyped, PlansMade, NEW c \in Clients, Asked(client[c]), ReadEvidence(c)
    PROVE  \E x : Asked(x) /\ Step(c, x)
<1>1. PICK s : s = Packed(c) OBVIOUS
<1>2. /\ client[c].at = "evidence" /\ s \in Snapshot
      /\ PlanRead(s) /\ ResponseRead(s) /\ EvidenceRead(s)
      /\ client[c].snapshot = s
    BY <1>1 DEF ReadEvidence, At, Asked, ClientRow, Packed
<1>3. PICK i \in Planned(s) :
         Step(c, Read(c, "evidence", [s EXCEPT !.physical = @ \cup
            {[id |-> i, status |-> evals[i].status,
              gaps |-> evals[i].critical + evals[i].other]}]))
    BY <1>1 DEF ReadEvidence
<1>4. s.plan # None /\ s.plan \in DOMAIN plans BY <1>2, <1>3 DEF Planned, PlanRead
<1>5. PICK x : x = plans[s.plan] OBVIOUS
<1>6. Made(x) BY <1>4, <1>5 DEF PlansMade
<1>7. PICK k \in DOMAIN x.result.fields : x.result.fields[k].evaluation = i /\ i # None
    BY <1>3, <1>4, <1>5 DEF Planned, ListPlacementFieldResults, hydrate
<1>8. i \in DOMAIN evals BY <1>6, <1>7, PlannedEvaluations
<1>9. i \in Nat /\ evals[i] \in EvalRow BY <1>8 DEF TablesTyped
<1>10. PICK e : e = [id |-> i, status |-> evals[i].status,
                     gaps |-> evals[i].critical + evals[i].other]
    OBVIOUS
<1>11. /\ e \in PhysicalRow /\ e.id = i /\ e.status = evals[i].status
  <2>1. evals[i].status \in EvalStatus /\ evals[i].critical \in Nat /\ evals[i].other \in Nat
      BY <1>9 DEF EvalRow
  <2>2. evals[i].critical + evals[i].other \in Nat BY <2>1
  <2> QED BY <1>9, <1>10, <2>1, <2>2 DEF PhysicalRow
<1>12. PICK y : y = [s EXCEPT !.physical = @ \cup {e}] OBVIOUS
<1>13. /\ y \in Snapshot /\ y.decision = s.decision /\ y.plan = s.plan /\ y.response = s.response
       /\ y.physical = s.physical \cup {e}
    BY <1>2, <1>11, <1>12 DEF Snapshot
<1>14. PlanRead(y) /\ ResponseRead(y) BY <1>2, <1>13 DEF PlanRead, ResponseRead
<1>15. ASSUME NEW m \in DOMAIN x.input.fields
       PROVE  ReadAs(e, x.input.fields[m])
  <2>1. PICK in : in = x.input.fields[m] OBVIOUS
  <2>2. in.evaluation = i /\ in.physicalStatus = "SUCCEEDED" => Stood(evals[i], in)
      BY <1>6, <1>7, <2>1 DEF Made, Rests
  <2>3. e.gaps = evals[i].critical + evals[i].other BY <1>10
  <2> QED BY <1>11, <2>1, <2>2, <2>3 DEF ReadAs, Stood, Overruled
<1>16. EvidenceRead(y)
  <2>1. ASSUME NEW z \in y.physical
        PROVE  /\ z.id \in DOMAIN evals
               /\ \A m \in DOMAIN x.input.fields : ReadAs(z, x.input.fields[m])
    <3>1. CASE z \in s.physical BY <1>2, <1>4, <1>5, <3>1 DEF EvidenceRead
    <3>2. CASE z = e BY <1>8, <1>11, <1>15, <3>2
    <3> QED BY <1>13, <3>1, <3>2
  <2> QED BY <1>5, <1>13, <2>1 DEF EvidenceRead
<1>17. Asked(Read(c, "evidence", y)) BY <1>2, <1>13, <1>14, <1>16, ReadStep
<1> QED BY <1>3, <1>10, <1>12, <1>17

-----------------------------------------------------------------------------
(***************************************************************************)
(* The packages.                                                           *)
(***************************************************************************)

(* A client without a request.                                             *)
LEMMA IdleAsks == Asked(Idle)
<1>1. NoSnapshot \in Snapshot /\ NoSnapshot.plan = None BY DEF NoSnapshot, Snapshot
<1>2. Idle.at = "idle" /\ Idle.decision = None /\ Idle.snapshot = NoSnapshot BY DEF Idle
<1>3. Idle \in ClientRow BY <1>1 DEF Idle, ClientRow
<1> QED BY <1>1, <1>2, <1>3 DEF Asked

(* Each step of a request is a read that adds to its snapshot, or its end. *)
LEMMA ClientStep ==
    ASSUME TablesTyped, PlansMade, NEW c \in Clients, Asked(client[c]),
           \/ \E d, p \in Packs : GetDecision(c, d, p)
           \/ ReadPlan(c) \/ ReadResponse(c) \/ ReadEvidence(c) \/ Store(c) \/ Abandon(c)
    PROVE  \E x : Asked(x) /\ Step(c, x)
<1>1. CASE \E d, p \in Packs : GetDecision(c, d, p) BY <1>1, GetDecisionAsks
<1>2. CASE ReadPlan(c) BY <1>2, ReadPlanAsks DEF PlansMade
<1>3. CASE ReadResponse(c) BY <1>3, ReadResponseAsks
<1>4. CASE ReadEvidence(c) BY <1>4, ReadEvidenceAsks
<1>5. CASE Store(c) \/ Abandon(c)
  <2>1. Step(c, Idle) BY <1>5 DEF Store, Abandon
  <2> QED BY <2>1, IdleAsks
<1> QED BY <1>1, <1>2, <1>3, <1>4, <1>5

(* Every step keeps what the clients have read, their own and others'.     *)
LEMMA ClientsStep ==
    ASSUME TablesTyped, PlansMade, ClientsAsk, Next
    PROVE  ClientsAsk'
<1>0. Grows BY StepGrows DEF PlansMade
<1>1. ASSUME NEW c \in Clients PROVE client'[c] = client[c] => Asked(client[c])'
  <2>1. PICK x : x = client[c] OBVIOUS
  <2>2. Asked(x)' BY <1>0, <2>1, AskedStays DEF ClientsAsk
  <2>3. CASE client'[c] = client[c]
    <3>1. client'[c] = x BY <2>1, <2>3
    <3> QED BY <2>2, <3>1 DEF Asked, PlanRead, ResponseRead, EvidenceRead, ReadAs, Overruled
  <2> QED BY <2>3
<1>2. CASE client' = client BY <1>1, <1>2 DEF ClientsAsk
<1>3. ASSUME NEW c \in Clients,
             \/ \E d, p \in Packs : GetDecision(c, d, p)
             \/ ReadPlan(c) \/ ReadResponse(c) \/ ReadEvidence(c) \/ Store(c) \/ Abandon(c)
      PROVE  ClientsAsk'
  <2>1. PICK x : Asked(x) /\ Step(c, x) BY <1>3, ClientStep DEF ClientsAsk
  <2>2. client' = [client EXCEPT ![c] = x] BY <2>1 DEF Step
  <2>3. client' = [b \in Clients |-> client'[b]] BY <2>2 DEF ClientsAsk
  <2>4. client'[c] = x /\ \A b \in Clients : b # c => client'[b] = client[b]
      BY <2>2 DEF ClientsAsk
  <2>5. Asked(x)' BY <1>0, <2>1, AskedStays
  <2>6. Asked(client[c])' BY <2>4, <2>5 DEF Asked, PlanRead, ResponseRead, EvidenceRead, ReadAs, Overruled
  <2>7. \A b \in Clients : b # c => Asked(client[b])' BY <1>1, <2>4
  <2>8. \A b \in Clients : Asked(client[b])' BY <2>6, <2>7
  <2> QED BY <2>3, <2>8 DEF ClientsAsk
<1>4. ASSUME NEW p \in Packs, EnsureRulePacks(p) \/ RetirePack(p) \/ Classify(p) \/ RespondTo(p)
      PROVE  client' = client
    BY <1>4, OthersKeep
<1>5. ASSUME NEW f \in Fields, ConfirmBoundary(f) \/ UpdateDetails(f) \/ StartEvaluation(f)
      PROVE  client' = client
    BY <1>5 DEF ConfirmBoundary, UpdateDetails, StartEvaluation
<1>6. ASSUME NEW i \in DOMAIN evals,
             \/ \E o \in Outcomes, lost \in BOOLEAN : EndEvaluation(i, o, lost)
             \/ RecordFailure(i)
      PROVE  client' = client
    BY <1>6 DEF EndEvaluation, RecordFailure
<1>7. ASSUME NEW p \in Packs, NEW q \in Quantities \cup {None}, CreatePlan(p, q)
      PROVE  client' = client
    BY <1>7 DEF CreatePlan
<1> QED BY <1>2, <1>3, <1>4, <1>5, <1>6, <1>7, Zenon DEF Next

-----------------------------------------------------------------------------
(* A package is put together from a whole snapshot. *)
Kept(k) ==
    /\ k.decision \in decided
    /\ k.status \in {"READY", "REVIEW_REQUIRED"}
    /\ tier(k.snapshot.decision) # "UNDETERMINED"
    /\ k.snapshot \in Snapshot
    /\ PlanRead(k.snapshot) /\ ResponseRead(k.snapshot) /\ EvidenceRead(k.snapshot)
    /\ k.snapshot.plan # None =>
         \A n \in DOMAIN plans[k.snapshot.plan].result.fields :
            LET e == plans[k.snapshot.plan].result.fields[n].evaluation
            IN  e # None => \E y \in k.snapshot.physical : y.id = e
    /\ k.status = "READY" =>
         /\ k.snapshot.plan # None => plans[k.snapshot.plan].result.status = "READY"
         /\ \A e \in k.snapshot.physical : e.gaps = 0
         /\ k.snapshot.response \in {None, "READY"}
    /\ tier(k.snapshot.decision) = "PROHIBITED" => "BLOCK_LAND_APPLICATION" \in k.actions
    /\ "BLOCK_LAND_APPLICATION" \in k.actions =>
         tier(k.snapshot.decision) = "PROHIBITED" \/ tier(k.decision) = "PROHIBITED"

PackagesKept == \A k \in packages : Kept(k)

(* A package that is kept stays so while the tables grow.                  *)
LEMMA KeptStays ==
    ASSUME Grows, NEW k, Kept(k)
    PROVE  Kept(k)'
<1>1. PICK s : s = k.snapshot OBVIOUS
<1>2. tier(s.decision)' = tier(s.decision) /\ tier(k.decision)' = tier(k.decision)
    BY TierStays DEF Grows
<1>3. PlanRead(s) /\ ResponseRead(s) /\ EvidenceRead(s) BY <1>1 DEF Kept
<1>4. s.plan \in {None} \cup DOMAIN plans BY <1>3 DEF PlanRead
<1>5. PlanRead(s)' /\ ResponseRead(s)' /\ EvidenceRead(s)' BY <1>3, <1>4, ReadsStay
<1>6. k.decision \in decided' BY DEF Kept, Grows
<1>7. s.plan # None => plans'[s.plan] = plans[s.plan] BY <1>4 DEF Grows
<1> QED BY <1>1, <1>2, <1>5, <1>6, <1>7 DEF Kept

(* Land application is blocked by the tier of a decision, by nothing else. *)
LEMMA BlockedByTier ==
    ASSUME NEW d, NEW s
    PROVE  /\ tier(s.decision) = "PROHIBITED" =>
                "BLOCK_LAND_APPLICATION" \in buildProposedActions(d, s)
           /\ "BLOCK_LAND_APPLICATION" \in buildProposedActions(d, s) =>
                tier(s.decision) = "PROHIBITED" \/ tier(d) = "PROHIBITED"
<1> DEFINE tasks == IF s.response = None THEN {} ELSE taskCodes(tier(d))
           code(r) == IF responseCodeForRequirement(r) \in tasks
                      THEN responseCodeForRequirement(r) ELSE r
           A == {code(r) : r \in ListBatchPolicyRequirements(s.decision)}
           B == IF s.plan = None THEN {}
                ELSE IF hydrate(s.plan).status = "READY" THEN {"REVIEW_DRAFT_ALLOCATION"}
                ELSE {"RESOLVE_PLACEMENT_GAPS"}
           C == IF tier(s.decision) = "PROHIBITED" THEN {"BLOCK_LAND_APPLICATION"} ELSE {}
<1>1. buildProposedActions(d, s) = A \cup tasks \cup B \cup C BY DEF buildProposedActions
<1>2. tier(d) # "PROHIBITED" => "BLOCK_LAND_APPLICATION" \notin tasks BY DEF taskCodes
<1>3. "BLOCK_LAND_APPLICATION" \notin B OBVIOUS
<1>4. tier(s.decision) # "PROHIBITED" => \A r \in ListBatchPolicyRequirements(s.decision) :
          r \in {"RESULT-SUBMISSION", "LANDOWNER-COMMUNICATION", "ELEVATED-RATE",
                 "SOURCE-EFFLUENT-30D", "SOURCE-REDUCTION"}
    BY DEF ListBatchPolicyRequirements, requirementsFor
<1>5. \A r \in {"RESULT-SUBMISSION", "LANDOWNER-COMMUNICATION", "ELEVATED-RATE",
                "SOURCE-EFFLUENT-30D", "SOURCE-REDUCTION"} :
          r # "BLOCK_LAND_APPLICATION" /\ responseCodeForRequirement(r) # "BLOCK_LAND_APPLICATION"
    BY DEF responseCodeForRequirement
<1> HIDE DEF tasks, B
<1>6. tier(s.decision) # "PROHIBITED" => "BLOCK_LAND_APPLICATION" \notin A BY <1>4, <1>5
<1> HIDE DEF A
<1> QED BY <1>1, <1>2, <1>3, <1>6

(* A package is READY only when its parts leave nothing to review. *)
LEMMA ReadyParts ==
    ASSUME NEW s \in Snapshot, packageStatus(s) = "READY"
    PROVE  /\ s.plan # None => plans[s.plan].result.status = "READY"
           /\ \A e \in s.physical : e.gaps = 0
           /\ s.response \in {None, "READY"}
<1>1. /\ SnapshotGaps(s) = {}
      /\ s.plan # None => hydrate(s.plan).status = "READY"
      /\ s.response \in {None, "READY"}
    BY DEF packageStatus
<1>2. ASSUME NEW e \in s.physical PROVE e.gaps = 0
  <2>1. e.gaps \in Nat BY DEF Snapshot, PhysicalRow
  <2>2. ~(e.gaps > 0)
    <3>1. SUFFICES ASSUME e.gaps > 0 PROVE FALSE OBVIOUS
    <3>2. "PHYSICAL_EVIDENCE" \in SnapshotGaps(s) BY <3>1 DEF SnapshotGaps
    <3> QED BY <1>1, <3>2
  <2> QED BY <2>1, <2>2
<1> QED BY <1>1, <1>2 DEF hydrate

(* A package is stored of a request that has read all of its parts.        *)
LEMMA StoreKeeps ==
    ASSUME NEW c \in Clients, Asked(client[c]), Store(c)
    PROVE  \E k : Kept(k) /\ packages' = packages \cup {k}
<1>1. PICK s : s = client[c].snapshot OBVIOUS
<1>2. PICK d : d = client[c].decision OBVIOUS
<1> DEFINE k == [decision |-> d, snapshot |-> s, status |-> packageStatus(s),
                 actions |-> buildProposedActions(d, s)]
<1>3. packages' = packages \cup {k} BY <1>1, <1>2 DEF Store, CreateDecisionPackage, Packed
<1>4. /\ d \in decided /\ tier(s.decision) # "UNDETERMINED"
      /\ s \in Snapshot /\ PlanRead(s) /\ ResponseRead(s) /\ EvidenceRead(s)
    BY <1>1, <1>2 DEF Store, At, Asked, ClientRow
<1>5. Planned(s) = {e.id : e \in s.physical} BY <1>1 DEF Store, Packed
<1>6. ASSUME s.plan # None, NEW n \in DOMAIN plans[s.plan].result.fields,
             plans[s.plan].result.fields[n].evaluation # None
      PROVE  \E y \in s.physical : y.id = plans[s.plan].result.fields[n].evaluation
  <2>1. plans[s.plan].result.fields[n].evaluation \in Planned(s)
      BY <1>6 DEF Planned, ListPlacementFieldResults, hydrate
  <2> QED BY <1>5, <2>1
<1>7. packageStatus(s) \in {"READY", "REVIEW_REQUIRED"} BY DEF packageStatus
<1>8. /\ k.decision = d /\ k.snapshot = s /\ k.status = packageStatus(s)
      /\ k.actions = buildProposedActions(d, s)
    OBVIOUS
<1> HIDE DEF k
<1>9. k.status = "READY" =>
         /\ s.plan # None => plans[s.plan].result.status = "READY"
         /\ \A e \in s.physical : e.gaps = 0
         /\ s.response \in {None, "READY"}
    BY <1>4, <1>8, ReadyParts
<1>10. /\ tier(s.decision) = "PROHIBITED" => "BLOCK_LAND_APPLICATION" \in k.actions
       /\ "BLOCK_LAND_APPLICATION" \in k.actions =>
            tier(s.decision) = "PROHIBITED" \/ tier(d) = "PROHIBITED"
    BY <1>8, BlockedByTier
<1>11. Kept(k) BY <1>4, <1>6, <1>7, <1>8, <1>9, <1>10 DEF Kept
<1> QED BY <1>3, <1>11

(* Every step keeps the packages.                                          *)
LEMMA PackagesStep ==
    ASSUME TablesTyped, PlansMade, ClientsAsk, PackagesKept, Next
    PROVE  PackagesKept'
<1>0. Grows BY StepGrows DEF PlansMade
<1>1. \A k \in packages : Kept(k)' BY <1>0, KeptStays DEF PackagesKept
<1>2. CASE packages' = packages BY <1>1, <1>2 DEF PackagesKept
<1>3. ASSUME NEW c \in Clients, Store(c) PROVE PackagesKept'
  <2>1. PICK k : Kept(k) /\ packages' = packages \cup {k} BY <1>3, StoreKeeps DEF ClientsAsk
  <2>2. Kept(k)' BY <1>0, <2>1, KeptStays
  <2> QED BY <1>1, <2>1, <2>2 DEF PackagesKept
<1>4. ASSUME NEW c \in Clients,
             \/ \E d, p \in Packs : GetDecision(c, d, p)
             \/ ReadPlan(c) \/ ReadResponse(c) \/ ReadEvidence(c) \/ Abandon(c)
      PROVE  packages' = packages
    BY <1>4 DEF GetDecision, ReadPlan, ReadResponse, ReadEvidence, Abandon
<1>5. ASSUME NEW p \in Packs, EnsureRulePacks(p) \/ RetirePack(p) \/ Classify(p) \/ RespondTo(p)
      PROVE  packages' = packages
    BY <1>5, OthersKeep
<1>6. ASSUME NEW f \in Fields, ConfirmBoundary(f) \/ UpdateDetails(f) \/ StartEvaluation(f)
      PROVE  packages' = packages
    BY <1>6 DEF ConfirmBoundary, UpdateDetails, StartEvaluation
<1>7. ASSUME NEW i \in DOMAIN evals,
             \/ \E o \in Outcomes, lost \in BOOLEAN : EndEvaluation(i, o, lost)
             \/ RecordFailure(i)
      PROVE  packages' = packages
    BY <1>7 DEF EndEvaluation, RecordFailure
<1>8. ASSUME NEW p \in Packs, NEW q \in Quantities \cup {None}, CreatePlan(p, q)
      PROVE  packages' = packages
    BY <1>8 DEF CreatePlan
<1> QED BY <1>2, <1>3, <1>4, <1>5, <1>6, <1>7, <1>8, Zenon DEF Next

-----------------------------------------------------------------------------
(***************************************************************************)
(* The inductive invariant and the theorems.                               *)
(***************************************************************************)

(* The tables, the plans, the requests and the packages.                   *)
IInv == TablesTyped /\ PlansMade /\ ClientsAsk /\ PackagesKept

(* There is nothing yet.                                                   *)
LEMMA InitInv == Init => IInv
<1> SUFFICES ASSUME Init PROVE IInv OBVIOUS
<1>1. TablesTyped
  <2>1. \A f \in Fields : field[f] = [ready |-> TRUE, boundary |-> 1] BY DEF Init
  <2>2. field \in [Fields -> FieldRow] /\ \A f \in Fields : field[f].boundary = 1
      BY <2>1, BoundsAssumption DEF Init, FieldRow
  <2>3. evals \in Seq(EvalRow) BY DEF Init
  <2>4. /\ report \in EvidenceInputs /\ profile \in Profiles /\ decided = {} /\ quantity = None
        /\ changes = 0
      BY DEF Init
  <2>5. /\ packs \in [Packs -> {"ABSENT", "ACTIVE", "RETIRED"}]
        /\ response \in [Packs -> {"ABSENT", "RUNNING", "READY", "REVIEW_REQUIRED", "FAILED"}]
      BY DEF Init
  <2> QED BY <2>2, <2>3, <2>4, <2>5, BoundsAssumption DEF TablesTyped
<1>2. PlansMade
  <2>1. plans = <<>> BY DEF Init
  <2>2. \A i : ~(i \in DOMAIN <<>>) OBVIOUS
  <2>3. PICK S : S = {plans[i] : i \in DOMAIN plans} OBVIOUS
  <2>4. plans \in Seq(S) BY <2>1
  <2> QED BY <2>1, <2>2, <2>3, <2>4 DEF PlansMade, Listed
<1>3. ClientsAsk BY IdleAsks DEF Init, ClientsAsk
<1>4. PackagesKept BY DEF Init, PackagesKept
<1> QED BY <1>1, <1>2, <1>3, <1>4 DEF IInv

(* A stuttering step keeps it.                                             *)
LEMMA StutterKeeps == IInv /\ UNCHANGED vars => IInv'
<1> SUFFICES ASSUME IInv, UNCHANGED vars PROVE IInv' OBVIOUS
<1> USE DEF vars, outside, IInv
<1>1. TablesTyped' BY DEF TablesTyped
<1>2. Grows BY DEF Grows, Settles
<1>3. PlansMade'
  <2>1. Listed(plans') BY DEF PlansMade
  <2>2. ASSUME NEW i \in DOMAIN plans' PROVE Made(plans[i])'
    <3>1. PICK x : x = plans[i] OBVIOUS
    <3>2. Made(x)' BY <1>2, <2>2, <3>1, MadeStays DEF PlansMade
    <3>3. plans'[i] = x BY <3>1
    <3> QED BY <3>2, <3>3 DEF Made, Rests, Stood, Overruled
  <2> QED BY <2>1, <2>2 DEF PlansMade
<1>4. ClientsAsk'
  <2>1. ASSUME NEW c \in Clients PROVE Asked(client[c])'
    <3>1. PICK x : x = client[c] OBVIOUS
    <3>2. Asked(x)' BY <1>2, <3>1, AskedStays DEF ClientsAsk
    <3>3. client'[c] = x BY <3>1
    <3> QED BY <3>2, <3>3 DEF Asked, PlanRead, ResponseRead, EvidenceRead, ReadAs, Overruled
  <2> QED BY <2>1 DEF ClientsAsk
<1>5. PackagesKept' BY <1>2, KeptStays DEF PackagesKept
<1> QED BY <1>1, <1>3, <1>4, <1>5

(* So every reachable state has it.                                        *)
LEMMA Invariance == Spec => []IInv
<1>1. IInv /\ Next => IInv' BY TablesStep, PlansStep, ClientsStep, PackagesStep DEF IInv
<1>2. IInv /\ [Next]_vars => IInv' BY <1>1, StutterKeeps
<1> QED BY InitInv, <1>2, PTL DEF Spec

(* Every stored plan gives exactly the batch away or reports what is left, *)
(* each field once and within its capacity, limits and rate, those with    *)
(* fewer high concerns first (EvaluateWithEvidenceAndPolicy), for any      *)
(* fields, profiles, evaluations and quantities.                           *)
THEOREM AllocationsAreSound == Spec => []AllocationSound
<1>1. ASSUME IInv PROVE AllocationSound
  <2>1. ASSUME NEW i \in DOMAIN plans
        PROVE  /\ SoundPlan(plans[i].result, plans[i].input)
               /\ PlanInput(plans[i].input)
               /\ plans[i].input.tier = tier(plans[i].decision)
               /\ plans[i].input.policyRate = matchedPolicyRate(plans[i].decision)
      BY <1>1, PlanIsSound DEF IInv, PlansMade, Made
  <2>2. AllocationsConserve
    <3> SUFFICES ASSUME NEW i \in DOMAIN plans, NEW r, r = plans[i].result, r.batch # None
                 PROVE  /\ Total(r.allocations) + r.unallocated = r.batch
                        /\ r.unallocated >= 0
                        /\ r.status = "READY" <=> /\ r.unallocated = 0
                                                  /\ tier(plans[i].decision) # "PROHIBITED"
                        /\ \A k, l \in DOMAIN r.allocations :
                             r.allocations[k].field = r.allocations[l].field => k = l
                        /\ \A k \in DOMAIN r.allocations : r.allocations[k].dryTons > 0
        BY Zenon DEF AllocationsConserve, hydrate
    <3> QED BY <2>1 DEF SoundPlan
  <2>3. WithinCapacity
    <3> SUFFICES ASSUME NEW i \in DOMAIN plans,
                        NEW k \in DOMAIN plans[i].result.allocations
                 PROVE  LET a == plans[i].result.allocations[k]
                            in == plans[i].input
                            f == in.fields[CHOOSE n \in DOMAIN in.fields : in.fields[n].field = a.field]
                            cap == Pack[plans[i].decision].cap
                        IN /\ f.status = "READY"
                           /\ tier(plans[i].decision) = "ELEVATED" => a.rate <= cap
                           /\ a.rate <= f.agronomic
                           /\ 2 * Scale * a.dryTons <= 2 * (f.acres * a.rate - f.prior * Scale) + Scale
        BY DEF WithinCapacity, ListPlacementAllocations, hydrate
    <3> DEFINE a == plans[i].result.allocations[k]
               in == plans[i].input
               f == in.fields[CHOOSE n \in DOMAIN in.fields : in.fields[n].field = a.field]
    <3>1. /\ PlanInput(in) /\ SoundPlan(plans[i].result, in) /\ in.tier = tier(plans[i].decision)
          /\ in.policyRate = matchedPolicyRate(plans[i].decision)
        BY <2>1
    <3>2. PICK m \in DOMAIN in.fields : \E g :
            /\ g = Found(in, m)
            /\ g.disposition = "ELIGIBLE"
            /\ a.field = g.field /\ a.rate = g.rate
            /\ a.dryTons \in Nat /\ a.dryTons <= g.capacity
      <4>1. PICK r : r = plans[i].result OBVIOUS
      <4>2. Granted(r.allocations, r.fields, in) BY <3>1, <4>1 DEF SoundPlan
      <4> QED BY <4>1, <4>2 DEF Granted
    <3>g. PICK g :
            /\ g = Found(in, m)
            /\ g.disposition = "ELIGIBLE"
            /\ a.field = g.field /\ a.rate = g.rate
            /\ a.dryTons \in Nat /\ a.dryTons <= g.capacity
        BY <3>2
    <3>3. m \in 1..Len(FieldOrder) BY <3>1 DEF PlanInput
    <3>4. /\ g.field = FieldOrder[m] /\ Fits(g, in.fields[m], in.tier, in.policyRate)
          /\ g.capacity \in Nat
        BY <3>1, <3>g, <3>3, FoundIs
    <3>5. /\ \A n \in DOMAIN in.fields : in.fields[n].field = FieldOrder[n]
          /\ DOMAIN in.fields = DOMAIN FieldOrder
        BY <3>1, FieldAssumption DEF PlanInput
    <3>6. \A n \in DOMAIN in.fields : in.fields[n].field = a.field <=> n = m
        BY <3>g, <3>4, <3>5, FieldAssumption
    <3>7. f = in.fields[m] BY <3>6
    <3> HIDE DEF f, a, in
    <3>8. Scale \in Nat BY ScaleAssumption
    <3>9. 2 * Scale * a.dryTons <= 2 * Scale * g.capacity
      <4>1. ASSUME NEW s \in Nat, NEW x \in Nat, NEW y \in Nat, x <= y
            PROVE  2 * s * x <= 2 * s * y
        <5>1. PICK z \in Nat : y = x + z BY <4>1
        <5>2. s * y = s * x + s * z /\ s * z \in Nat /\ s * x \in Nat BY <5>1
        <5> QED BY <5>2
      <4> QED BY <3>g, <3>4, <3>8, <4>1
    <3>10. 2 * Scale * g.capacity <= 2 * (f.acres * a.rate - f.prior * Scale) + Scale
        BY <3>g, <3>4, <3>7 DEF Fits
    <3>11. tier(plans[i].decision) = "ELEVATED" => a.rate <= Pack[plans[i].decision].cap
        BY <3>1, <3>g, <3>4 DEF Fits, matchedPolicyRate, matched
    <3>12. f.status = "READY" /\ a.rate <= f.agronomic BY <3>g, <3>4, <3>7 DEF Fits
    <3>13. 2 * Scale * a.dryTons <= 2 * (f.acres * a.rate - f.prior * Scale) + Scale
      <4>1. f.acres \in Nat /\ f.prior \in Nat /\ a.rate \in Nat BY <3>g, <3>4, <3>7 DEF Fits
      <4>2. ASSUME NEW x \in Nat, NEW y \in Nat PROVE x * y \in Nat OBVIOUS
      <4>3. PICK x \in Int : x = 2 * Scale * a.dryTons BY <3>g, <3>8
      <4>4. PICK y \in Int : y = 2 * Scale * g.capacity BY <3>4, <3>8
      <4>5. PICK v \in Int : v = f.acres * a.rate BY <4>1, <4>2
      <4>6. PICK w \in Int : w = f.prior * Scale BY <3>8, <4>1, <4>2
      <4>7. x <= y /\ y <= 2 * (v - w) + Scale BY <3>9, <3>10, <4>3, <4>4, <4>5, <4>6
      <4>8. x <= 2 * (v - w) + Scale BY <3>8, <4>7
      <4> QED BY <4>3, <4>5, <4>6, <4>8
    <3> QED BY <3>11, <3>12, <3>13, ZenonT(30) DEF f, a, in
  <2>4. LeastConcernFirst
    <3> SUFFICES ASSUME NEW i \in DOMAIN plans, NEW r, r = plans[i].result,
                        NEW k \in DOMAIN r.fields, NEW l \in DOMAIN r.fields,
                        r.fields[k].disposition = "ELIGIBLE", r.fields[k].high < r.fields[l].high,
                        \E n \in DOMAIN r.allocations : r.allocations[n].field = r.fields[l].field
                 PROVE  \/ r.fields[k].capacity = 0
                        \/ \E n \in DOMAIN r.allocations :
                             /\ r.allocations[n].field = r.fields[k].field
                             /\ r.allocations[n].dryTons = r.fields[k].capacity
        BY ZenonT(30) DEF LeastConcernFirst, hydrate
    <3>1. LeastConcern(r.allocations, r.fields) BY <2>1 DEF SoundPlan
    <3> QED BY <3>1 DEF LeastConcern, Used, UsedUp
  <2> QED BY <2>2, <2>3, <2>4 DEF AllocationSound
<1> QED BY <1>1, Invariance, PTL

(* Every stored package agrees with the evidence it is made of: there is   *)
(* none of a batch whose evidence is missing or unreadable, and land       *)
(* application is planned or blocked by what was found (Create,            *)
(* buildProposedActions).                                                  *)
THEOREM PackagesWithinTier == Spec => []PackageWithinTier
<1>1. ASSUME IInv PROVE PackageWithinTier
  <2> SUFFICES ASSUME NEW k \in packages, NEW p, p = k.snapshot.decision
               PROVE  LET pack == Pack[p]
                          found == \E n \in Required : Detected(n, pack.prohibited)
                          known == \A n \in Required : \E a \in report.analytes :
                                a.name = n /\ IF a.nonDetect THEN Reading(a) \in 0..pack.elevated
                                              ELSE a.value # None
                      IN /\ known
                         /\ found => k.snapshot.plan = None /\ "BLOCK_LAND_APPLICATION" \in k.actions
                         /\ ~found => "BLOCK_LAND_APPLICATION" \notin k.actions \/ tier(k.decision) = "PROHIBITED"
      BY DEF PackageWithinTier
  <2>1. Kept(k) /\ report \in EvidenceInputs BY <1>1 DEF IInv, PackagesKept, TablesTyped
  <2>2. tier(p) # "UNDETERMINED" BY <2>1 DEF Kept
  <2>3. Conclusive(Pack[p], report)
      BY <2>2 DEF tier, Evaluate, GetConfirmedReportForClassification
  <2>4. tier(p) = "PROHIBITED" <=> \E n \in Required : Detected(n, Pack[p].prohibited)
    <3>1. tier(p) = "PROHIBITED" <=> \E a \in Rows(report) : atOrAbove(a, Pack[p].prohibited)
        BY <2>3 DEF tier, Evaluate, GetConfirmedReportForClassification
    <3> QED BY <3>1 DEF Rows, atOrAbove, Detected
  <2>5. ASSUME NEW n \in Required
        PROVE  \E a \in report.analytes :
                 a.name = n /\ IF a.nonDetect THEN Reading(a) \in 0..Pack[p].elevated
                               ELSE a.value # None
    <3>1. PICK a \in Rows(report) : a.name = n /\ Usable(Pack[p], a)
      <4>1. n \in {a.name : a \in Rows(report)} BY <2>3 DEF Conclusive
      <4>2. PICK a \in Rows(report) : a.name = n BY <4>1
      <4> QED BY <2>3, <4>2 DEF Conclusive
    <3>2. a \in report.analytes BY DEF Rows
    <3>3. /\ a.nonDetect \in BOOLEAN
          /\ {a.value, a.reportingLimit, a.detectionLimit} \subseteq Int \cup {None}
        BY <2>1, <3>2, EvidenceAssumption
    <3>4. CASE a.nonDetect
      <4>1. Reading(a) \in Int /\ 0 <= Reading(a) /\ Reading(a) <= Pack[p].elevated
          BY <3>1, <3>3, <3>4 DEF Usable, Reading, UpperBound
      <4> QED BY <3>1, <3>2, <3>4, <4>1
    <3>5. CASE ~a.nonDetect
      <4>1. a.value # None BY <3>1, <3>5 DEF Usable, Reading
      <4> QED BY <3>1, <3>2, <3>5, <4>1
    <3> QED BY <3>4, <3>5
  <2>6. tier(p) = "PROHIBITED" => k.snapshot.plan = None /\ "BLOCK_LAND_APPLICATION" \in k.actions
      BY <2>1 DEF Kept, PlanRead
  <2>7. tier(p) # "PROHIBITED" =>
          "BLOCK_LAND_APPLICATION" \notin k.actions \/ tier(k.decision) = "PROHIBITED"
      BY <2>1 DEF Kept
  <2> QED BY <2>4, <2>5, <2>6, <2>7
<1> QED BY <1>1, Invariance, PTL

(* Whatever ran between the reads of a package: each allocation of its plan *)
(* rests on an evaluation that the plan saw SUCCEEDED and without critical  *)
(* gap, and that the package shows with the same gaps and the same status,  *)
(* or FAILED if the answer of its completion was lost (Create,              *)
(* RecordFailure).                                                          *)
THEOREM AllocationsHaveEvidence == Spec => []AllocatedHasEvidence
<1>1. ASSUME IInv PROVE AllocatedHasEvidence
  <2> SUFFICES ASSUME NEW k \in packages, k.snapshot.plan # None,
                      NEW n \in DOMAIN plans[k.snapshot.plan].result.allocations
               PROVE  \E m \in DOMAIN plans[k.snapshot.plan].input.fields, e \in k.snapshot.physical :
                        LET a == plans[k.snapshot.plan].result.allocations[n]
                            in == plans[k.snapshot.plan].input.fields[m]
                        IN /\ in.field = a.field /\ in.evaluation = a.evaluation /\ e.id = a.evaluation
                           /\ in.physicalStatus = "SUCCEEDED" /\ in.critical = 0
                           /\ e.gaps = in.other
                           /\ e.status = "SUCCEEDED" \/ (e.status = "FAILED" /\ evals[e.id].lost)
      BY Zenon DEF AllocatedHasEvidence
  <2> DEFINE s == k.snapshot
             x == plans[s.plan]
             a == x.result.allocations[n]
  <2> HIDE DEF s, x, a
  <2>0. s = k.snapshot /\ x = plans[s.plan] /\ a = x.result.allocations[n]
      BY DEF s, x, a
  <2>1. Kept(k) BY <1>1 DEF IInv, PackagesKept
  <2>2. s.plan \in DOMAIN plans BY <2>0, <2>1 DEF Kept, PlanRead
  <2>3. Made(x) /\ TablesTyped BY <1>1, <2>0, <2>2 DEF IInv, PlansMade
  <2>4. /\ a.evaluation # None
        /\ \E j \in DOMAIN x.result.fields : x.result.fields[j].evaluation = a.evaluation
      BY <2>0, <2>3, AllocatedRests
  <2>5. PICK m \in DOMAIN x.input.fields :
          /\ x.input.fields[m].field = a.field
          /\ x.input.fields[m].evaluation = a.evaluation
          /\ x.input.fields[m].physicalStatus = "SUCCEEDED"
          /\ x.input.fields[m].critical = 0 /\ x.input.fields[m].other \in Nat
    <3>1. n \in DOMAIN x.result.allocations BY <2>0
    <3>2. LET z == x.result.allocations[n]
          IN \E m \in DOMAIN x.input.fields :
               /\ x.input.fields[m].field = z.field
               /\ x.input.fields[m].evaluation = z.evaluation
               /\ x.input.fields[m].physicalStatus = "SUCCEEDED"
               /\ x.input.fields[m].critical = 0 /\ x.input.fields[m].other \in Nat
        BY <2>3, <3>1, AllocatedRests
    <3>3. a = x.result.allocations[n] BY <2>0
    <3> QED BY <3>2, <3>3
  <2>6. PICK e \in s.physical : e.id = a.evaluation BY <2>0, <2>1, <2>4 DEF Kept
  <2>7. ReadAs(e, x.input.fields[m]) BY <2>0, <2>1 DEF Kept, EvidenceRead
  <2>8. /\ e.gaps = x.input.fields[m].other
        /\ e.status = "SUCCEEDED" \/ (e.status = "FAILED" /\ evals[e.id].lost)
    <3>1. PICK in : in = x.input.fields[m] OBVIOUS
    <3>2. e.id = in.evaluation /\ in.physicalStatus = "SUCCEEDED" BY <2>5, <2>6, <3>1
    <3>3. in.critical = 0 /\ in.other \in Nat BY <2>5, <3>1
    <3>4. ReadAs(e, in) BY <2>7, <3>1
    <3>5. in.evaluation = e.id BY <3>2
    <3>6. e.gaps = in.critical + in.other BY <3>2, <3>4, <3>5 DEF ReadAs
    <3>7. e.status = "SUCCEEDED" \/ (e.status = "FAILED" /\ evals[e.id].lost)
        BY <3>2, <3>4, <3>5 DEF ReadAs, Overruled
    <3>8. e.gaps = in.other BY <3>3, <3>6
    <3> QED BY <3>1, <3>7, <3>8
  <2> QED BY <2>0, <2>5, <2>6, <2>8
<1> QED BY <1>1, Invariance, PTL

(* Tables and packages are typed, and a READY package is complete: its     *)
(* whole batch is placed, its evidence has no gap, its response is ready.  *)
THEOREM PackageIsConsistent == Spec => []PackageConsistent
<1>1. ASSUME IInv PROVE TypeOK
  <2> USE <1>1 DEF IInv
  <2>1. /\ report \in EvidenceInputs
        /\ packs \in [Packs -> {"ABSENT", "ACTIVE", "RETIRED"}]
        /\ decided \subseteq {p \in Packs : packs[p] # "ABSENT"}
        /\ quantity \in Quantities \cup {None}
        /\ field \in [Fields -> [ready : BOOLEAN, boundary : 1..(MaxChanges + 1)]]
        /\ response \in [Packs -> {"ABSENT", "RUNNING", "READY", "REVIEW_REQUIRED", "FAILED"}]
      BY DEF TablesTyped, FieldRow
  <2>2. ASSUME NEW i \in DOMAIN evals
        PROVE  evals[i].field \in Fields /\ evals[i].boundary \in 1..(MaxChanges + 1)
    <3>1. evals[i] \in EvalRow BY DEF TablesTyped
    <3> QED BY <3>1 DEF EvalRow
  <2>3. \A i \in DOMAIN plans : plans[i].decision \in decided BY DEF PlansMade, Made
  <2>4. ASSUME NEW c \in Clients
        PROVE  /\ client[c].at \in {"idle", "plan", "response", "evidence"}
               /\ Packed(c).response \in {None, "READY", "REVIEW_REQUIRED"}
               /\ Packed(c).plan \in {None} \cup DOMAIN plans
    <3>1. PICK x : x = client[c] OBVIOUS
    <3>2. Asked(x) BY <3>1 DEF ClientsAsk
    <3>3. x.at \in {"idle", "plan", "response", "evidence"} /\ x.snapshot \in Snapshot
        BY <3>2 DEF Asked, ClientRow
    <3>4. x.snapshot.response \in {None, "READY", "REVIEW_REQUIRED"} BY <3>3 DEF Snapshot
    <3>5. x.snapshot.plan \in {None} \cup DOMAIN plans BY <3>2, <3>3 DEF Asked, PlanRead
    <3> QED BY <3>1, <3>3, <3>4, <3>5 DEF Packed
  <2>5. \A k \in packages : k.decision \in decided /\ k.status \in {"READY", "REVIEW_REQUIRED"}
      BY DEF PackagesKept, Kept
  <2> QED BY <2>1, <2>2, <2>3, <2>4, <2>5 DEF TypeOK
<1>2. ASSUME IInv PROVE ReadyIsComplete
  <2> SUFFICES ASSUME NEW k \in packages, k.status = "READY", NEW s, s = k.snapshot
               PROVE  /\ s.plan # None => Total(plans[s.plan].result.allocations)
                                            = plans[s.plan].result.batch
                      /\ s.plan = None <=> tier(s.decision) = "PROHIBITED"
                      /\ \A e \in s.physical : e.gaps = 0
                      /\ s.response = "READY" <=> tier(s.decision) # "STANDARD"
      BY DEF ReadyIsComplete, ListPlacementAllocations, hydrate
  <2>1. Kept(k) BY <1>2 DEF IInv, PackagesKept
  <2>2. s.plan \in DOMAIN plans => s.plan # None
    <3>1. PICK S : S = {plans[i] : i \in DOMAIN plans} OBVIOUS
    <3>2. plans \in Seq(S) BY <1>2, <3>1 DEF IInv, PlansMade, Listed
    <3>3. s.plan \in DOMAIN plans => s.plan \in Int BY <3>2
    <3> QED BY <3>3, NoneAssumption
  <2>3. s.plan = None <=> tier(s.decision) = "PROHIBITED" BY <2>1, <2>2 DEF Kept, PlanRead
  <2>4. s.response = "READY" <=> tier(s.decision) # "STANDARD"
      BY <2>1, NoneAssumption DEF Kept, ResponseRead
  <2>5. ASSUME s.plan # None
        PROVE  Total(plans[s.plan].result.allocations) = plans[s.plan].result.batch
    <3>1. PICK r : r = plans[s.plan].result OBVIOUS
    <3>2. s.plan \in DOMAIN plans /\ r.status = "READY" BY <2>1, <2>5, <3>1 DEF Kept, PlanRead
    <3>3. SoundPlan(r, plans[s.plan].input)
        BY <1>2, <3>1, <3>2, PlanIsSound DEF IInv, PlansMade, Made
    <3>4. /\ r.batch # None /\ r.unallocated = 0 /\ Total(r.allocations) \in Int
          /\ Total(r.allocations) + r.unallocated = r.batch
        BY <3>2, <3>3 DEF SoundPlan
    <3>5. Total(r.allocations) = r.batch BY <3>4
    <3> QED BY <3>1, <3>5
  <2>6. \A e \in s.physical : e.gaps = 0 BY <2>1 DEF Kept
  <2> QED BY <2>3, <2>4, <2>5, <2>6
<1> QED BY <1>1, <1>2, Invariance, PTL DEF PackageConsistent
=============================================================================
