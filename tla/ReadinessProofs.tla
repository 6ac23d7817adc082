--------------------------- MODULE ReadinessProofs ---------------------------
(***************************************************************************)
(* For any runs, number of steps, workers and faults: the calls of a run   *)
(* succeed in order and once, a step is attempted a bounded number of      *)
(* times, and, while no worker outlives the rescue of its job, a run that  *)
(* waits says why and a run that ended stays as it is.                     *)
(*                                                                         *)
(* Two arguments carry the proof.  A worker past prepare holds an attempt  *)
(* number nobody else holds (Distinct), and without outlived rescues it is *)
(* alone on its step and the run is still at that step (WorkerFits), which *)
(* is why persistGap may skip the checks that persistSuccess makes.  And   *)
(* River's count of the tries of a job, which a snooze gives back, plus    *)
(* the attempts that can no longer be snoozed, pays for every attempt that *)
(* was made and every one that a worker is about to make (Budget).         *)
(***************************************************************************)
EXTENDS Readiness, FiniteSetTheorems, TLAPS

Calling == {"call", "result", "final", "retryable", "limited", "gap", "snooze"}

Busy(w) == worker[w].at # "idle"
FailedCall(n) == [attempt |-> n, status |-> "FAILED"]
Good(j) == {c \in calls[j] : c.status = "SUCCEEDED"}

(* A job is queued for the step a run is at, or was for an earlier one. *)
JobFits(j) ==
    /\ job[j].state = "available" => job[j].tries < MaxAttempts
    /\ job[j].state = "running" => job[j].tries >= 1
    /\ job[j].state = "none" => attempts[j] = 0 /\ job[j].tries = 0
    /\ job[j].state # "none" => j[2] <= next[j[1]] /\ run[j[1]] # "ABSENT"

(* The calls of a step: one success behind next_step, none at it, and no   *)
(* call beyond it.                                                         *)
CallsFit(j) ==
    /\ j[2] < next[j[1]] => \E c \in calls[j] : Good(j) = {c}
    /\ j[2] >= next[j[1]] => Good(j) = {}
    /\ j[2] > next[j[1]] => calls[j] = {}

(* What a worker holds in memory agrees with the rows. *)
WorkerFits(w) ==
    Busy(w) =>
        LET j == worker[w].job
        IN  /\ job[j].state # "none"
            /\ worker[w].attempt <= attempts[j]
            /\ worker[w].at = "prepare" => worker[w].attempt = 0
            /\ worker[w].at \in Calling => worker[w].attempt >= 1
            /\ worker[w].at = "snooze" => worker[w].attempt < GiveUpAt
            /\ worker[w].at = "gap" => FailedCall(worker[w].attempt) \in calls[j]
            /\ ~outlives =>
                 /\ job[j].state = "running"
                 /\ worker[w].at \in Calling =>
                      /\ worker[w].attempt = attempts[j]
                      /\ next[j[1]] = j[2]
                      /\ run[j[1]] = "RUNNING"

(* Attempt numbers are handed out once, and a step has two workers only    *)
(* where one outlived a rescue.                                            *)
Distinct ==
    \A v, w \in Workers :
        Busy(v) /\ Busy(w) /\ worker[v].job = worker[w].job /\ v # w =>
            outlives /\ (worker[v].attempt = worker[w].attempt => worker[v].attempt = 0)

(* Attempt n was made and whoever made it is gone. *)
Over(j, n) ==
    n <= attempts[j] /\ \A w \in Workers : ~(worker[w].job = j /\ worker[w].attempt = n)
Snoozed(j, n) == IF Over(j, n) THEN 1 ELSE 0
Preparing(j) == {w \in Workers : worker[w].at = "prepare" /\ worker[w].job = j}

(* Only the attempts before GiveUpAt can be snoozed. *)
Budget(j) ==
    attempts[j] + Cardinality(Preparing(j)) <= job[j].tries + Snoozed(j, 1) + Snoozed(j, 2)

(* Nothing but an attempt of its own uses up the budget of a step. *)
WorkersFit ==
    /\ \A w \in Workers : WorkerFits(w)
    /\ Distinct
    /\ \A j \in Job : Budget(j)

RowsFit ==
    /\ \A j \in Job : JobFits(j) /\ CallsFit(j)
    /\ WaitingExplained
    /\ GapPausesRun

IInv == TypeOK /\ RowsFit /\ WorkersFit

-----------------------------------------------------------------------------
Points == {"prepare", "call", "result", "final", "retryable", "limited",
           "gap", "nil", "snooze", "error"}

LEMMA JobPair ==
    ASSUME NEW j \in Job
    PROVE  /\ j = <<j[1], j[2]>> /\ j[1] \in Runs
           /\ j[2] \in Nat /\ 1 <= j[2] /\ j[2] <= Steps
BY StepsAssumption DEF Job, Positions

LEMMA NextType ==
    ASSUME TypeOK, NEW r \in Runs
    PROVE  next[r] \in Nat /\ 1 <= next[r] /\ next[r] <= Steps + 1
BY StepsAssumption DEF TypeOK

(* A worker is idle, or at a point of Work on some job. *)
LEMMA WorkerType ==
    ASSUME TypeOK, NEW w \in Workers
    PROVE  /\ worker[w] \in Worker
           /\ ~Busy(w) <=> worker[w] = Idle
           /\ ~Busy(w) => worker[w].attempt = 0
           /\ Busy(w) => /\ worker[w].at \in Points
                         /\ worker[w].job \in Job
                         /\ worker[w].attempt \in Nat
                         /\ worker[w] \in [at : Points, job : Job, attempt : Nat]
<1>1. worker[w] \in Worker BY DEF TypeOK
<1>2. Idle.at = "idle" /\ Idle.attempt = 0 BY DEF Idle
<1>3. CASE worker[w] = Idle BY <1>1, <1>2, <1>3 DEF Busy
<1>4. CASE worker[w] # Idle
  <2>1. worker[w] \in [at : Points, job : Job, attempt : Nat]
      BY <1>1, <1>4 DEF Worker, Points
  <2>2. worker[w].at # "idle" BY <2>1 DEF Points
  <2> QED BY <1>1, <1>4, <2>1, <2>2 DEF Busy
<1> QED BY <1>3, <1>4

LEMMA BecomeType ==
    ASSUME TypeOK, NEW w \in Workers, Busy(w), NEW at \in Points, Become(w, at)
    PROVE  LET new == [worker[w] EXCEPT !.at = at]
           IN  /\ new \in Worker /\ new.at = at
               /\ new.job = worker[w].job /\ new.attempt = worker[w].attempt
               /\ worker' = [worker EXCEPT ![w] = new]
<1>1. worker[w] \in [at : Points, job : Job, attempt : Nat] BY WorkerType
<1>2. worker' = [worker EXCEPT ![w] = [worker[w] EXCEPT !.at = at]]
    BY DEF Become, TypeOK
<1> QED BY <1>1, <1>2 DEF Worker, Points

(* What the queue makes of a job: it stays typed, a job that waits has     *)
(* tries left, and one that was handed out keeps count of it.              *)
LEMMA QueueRows ==
    ASSUME NEW b \in JobRow(MaxAttempts), NEW answer \in {"nil", "error", "snooze"},
           b.state = "available" => b.tries < MaxAttempts,
           b.state = "running" => b.tries >= 1
    PROVE  LET done == Settled(b, answer, MaxAttempts)
               late == Retried(b, MaxAttempts)
               taken == Fetched(b)
           IN  /\ done \in JobRow(MaxAttempts) /\ late \in JobRow(MaxAttempts)
               /\ done.state = "available" => done.tries < MaxAttempts
               /\ done.state = "running" => b.state = "running" /\ done.tries >= 1
               /\ done.state = "none" <=> b.state = "none"
               /\ done.tries = IF b.state = "running" /\ answer = "snooze"
                               THEN b.tries - 1 ELSE b.tries
               /\ late.tries = b.tries
               /\ late.state \in {"available", "discarded"}
               /\ late.state = "available" => late.tries < MaxAttempts
               /\ b.state = "available" =>
                    /\ taken \in JobRow(MaxAttempts)
                    /\ taken.state = "running" /\ taken.tries = b.tries + 1
<1> USE DEF JobRow, Fetched, Retried, Settled, MaxAttempts
<1>1. CASE b.state = "running" /\ answer = "nil" BY <1>1
<1>2. CASE b.state = "running" /\ answer = "error" BY <1>2
<1>3. CASE b.state = "running" /\ answer = "snooze" BY <1>3
<1>4. CASE b.state # "running" BY <1>4
<1> QED BY <1>1, <1>2, <1>3, <1>4

LEMMA PreparingIsFinite ==
    ASSUME NEW j \in Job
    PROVE  IsFiniteSet(Preparing(j)) /\ Cardinality(Preparing(j)) \in Nat
<1>1. Preparing(j) \in SUBSET Workers BY DEF Preparing
<1>2. IsFiniteSet(Preparing(j)) BY <1>1, FS_Subset, WorkersAssumption
<1> QED BY <1>2, FS_CardinalityType

(* The budget of a step lasts while no attempt at it begins. *)
LEMMA BudgetLasts ==
    ASSUME TypeOK, TypeOK', NEW j \in Job, Budget(j),
           attempts'[j] = attempts[j], job'[j].tries >= job[j].tries,
           Preparing(j)' \subseteq Preparing(j),
           Over(j, 1) => Over(j, 1)', Over(j, 2) => Over(j, 2)'
    PROVE  Budget(j)'
<1>1. Cardinality(Preparing(j)') <= Cardinality(Preparing(j))
      /\ Cardinality(Preparing(j)') \in Nat
  <2>1. Preparing(j)' \in SUBSET Preparing(j) OBVIOUS
  <2> HIDE DEF Preparing
  <2> QED BY <2>1, PreparingIsFinite, FS_Subset, FS_CardinalityType
<1>2. attempts[j] \in Nat /\ job[j].tries \in Nat /\ job'[j].tries \in Nat
  <2>1. attempts[j] \in Nat BY DEF TypeOK
  <2>2. job[j] \in JobRow(MaxAttempts) /\ job'[j] \in JobRow(MaxAttempts) BY DEF TypeOK
  <2>3. \A b \in JobRow(MaxAttempts) : b.tries \in Nat BY DEF JobRow, MaxAttempts
  <2> QED BY <2>1, <2>2, <2>3
<1>3. Snoozed(j, 1)' \in {0, 1} /\ Snoozed(j, 2)' \in {0, 1}
      /\ Snoozed(j, 1) \in {0, 1} /\ Snoozed(j, 2) \in {0, 1}
      /\ Snoozed(j, 1) <= Snoozed(j, 1)' /\ Snoozed(j, 2) <= Snoozed(j, 2)'
    BY DEF Snoozed
<1> QED BY <1>1, <1>2, <1>3, PreparingIsFinite DEF Budget

-----------------------------------------------------------------------------
(* A worker that moves on in Work without a new attempt, or goes idle,     *)
(* keeps every worker in agreement with the rows: what it changes of its   *)
(* run concerns no other step (what), and a job it queues is a new one.    *)
LEMMA MoveStep ==
    ASSUME IInv, TypeOK', NEW w \in Workers, Busy(w), NEW new \in Worker,
           worker' = [worker EXCEPT ![w] = new],
           UNCHANGED <<attempts, outlives>>,
           \A k \in Job : job'[k] = job[k] \/ (job[k].state = "none" /\ job'[k] = Queued),
           \A k \in Job : calls[k] \subseteq calls'[k],
           ~outlives => \A k \in Job \ {worker[w].job} :
               run[k[1]] = "RUNNING" /\ next[k[1]] = k[2] =>
                   run'[k[1]] = "RUNNING" /\ next'[k[1]] = k[2],
           new = Idle \/
             /\ new.job = worker[w].job /\ new.attempt = worker[w].attempt
             /\ new.at \notin {"idle", "prepare"}
             /\ new.at \in Calling =>
                  /\ worker[w].at \in Calling
                  /\ run' = run /\ next' = next
             /\ new.at = "snooze" => worker[w].attempt < GiveUpAt
             /\ new.at = "gap" => FailedCall(worker[w].attempt) \in calls'[worker[w].job]
    PROVE  WorkersFit'
<1>0. TypeOK /\ WorkersFit /\ RowsFit BY DEF IInv
<1>1. Idle.at = "idle" /\ Idle.attempt = 0 BY DEF Idle
<1>2. worker'[w] = new /\ \A v \in Workers \ {w} : worker'[v] = worker[v]
    BY <1>0 DEF TypeOK
<1>3. PICK j \in Job : worker[w].job = j BY <1>0, WorkerType
<1>4. \A k \in Job : job[k].state # "none" => job'[k] = job[k] OBVIOUS
<1>5. ASSUME NEW v \in Workers PROVE WorkerFits(v)'
  <2>1. CASE v # w /\ Busy(v)
    <3>1. PICK k \in Job : worker[v].job = k BY <1>0, <2>1, WorkerType
    <3>2. job[k].state # "none" BY <1>0, <2>1, <3>1 DEF WorkersFit, WorkerFits
    <3>3. job'[k] = job[k] /\ calls[k] \subseteq calls'[k] BY <1>4, <3>2
    <3>4. ~outlives => k # j
        BY <1>0, <1>3, <2>1, <3>1 DEF WorkersFit, Distinct
    <3> QED BY <1>0, <1>2, <1>3, <2>1, <3>1, <3>3, <3>4 DEF WorkersFit, WorkerFits, Busy
  <2>2. CASE v # w /\ ~Busy(v) BY <1>2, <2>2 DEF WorkerFits, Busy
  <2>3. CASE v = w /\ new = Idle BY <1>1, <1>2, <2>3 DEF WorkerFits, Busy
  <2>4. CASE v = w /\ new # Idle
    <3>1. job[j].state # "none" BY <1>0, <1>3 DEF WorkersFit, WorkerFits
    <3>2. job'[j] = job[j] /\ calls[j] \subseteq calls'[j] BY <1>4, <3>1
    <3> QED BY <1>0, <1>2, <1>3, <2>4, <3>2 DEF WorkersFit, WorkerFits
  <2> QED BY <2>1, <2>2, <2>3, <2>4
<1>6. Distinct'
    BY <1>0, <1>1, <1>2 DEF WorkersFit, Distinct, Busy
<1>7. ASSUME NEW k \in Job PROVE Budget(k)'
  <2>1. Preparing(k)' \subseteq Preparing(k)
      BY <1>1, <1>2 DEF Preparing
  <2>2. ASSUME NEW n \in {1, 2}, Over(k, n) PROVE Over(k, n)'
      BY <1>1, <1>2, <2>2 DEF Over
  <2>3. job'[k].tries >= job[k].tries
    <3>1. CASE job'[k] = job[k]
      <4>1. job[k] \in JobRow(MaxAttempts) BY <1>0 DEF TypeOK
      <4>2. job[k].tries \in Nat BY <4>1 DEF JobRow, MaxAttempts
      <4> QED BY <3>1, <4>2
    <3>2. CASE job[k].state = "none" /\ job'[k] = Queued
        BY <1>0, <3>2 DEF RowsFit, JobFits, Queued
    <3> QED BY <3>1, <3>2
  <2> QED BY <1>0, <2>1, <2>2, <2>3, BudgetLasts DEF WorkersFit
<1> QED BY <1>5, <1>6, <1>7 DEF WorkersFit

(* The rows of a run agree while a worker only moves on. *)
LEMMA SameRows ==
    ASSUME IInv, TypeOK', WorkersFit', UNCHANGED rows, UNCHANGED <<job, outlives>>
    PROVE  IInv'
<1>1. UNCHANGED <<run, next, step, attempts, calls, gaps>> BY DEF rows
<1>2. ASSUME NEW j \in Job PROVE JobFits(j)' /\ CallsFit(j)'
    BY <1>1 DEF IInv, RowsFit, JobFits, CallsFit, Good
<1>3. WaitingExplained' /\ GapPausesRun'
    BY <1>1 DEF IInv, RowsFit, WaitingExplained, GapPausesRun
<1> QED BY <1>2, <1>3 DEF IInv, RowsFit

LEMMA IdleStep ==
    ASSUME IInv, NEW w \in Workers, Crash(w)
    PROVE  IInv'
<1>1. Idle \in Worker BY DEF Worker
<1>2. /\ worker' = [worker EXCEPT ![w] = Idle] /\ UNCHANGED rows
      /\ UNCHANGED <<run, next, step, attempts, calls, gaps, job, outlives>>
    BY DEF Crash, rows
<1>3. faults' \in 0..MaxFaults BY FaultsAssumption DEF Crash, IInv, TypeOK
<1>4. TypeOK' BY <1>1, <1>2, <1>3 DEF IInv, TypeOK
<1>5. Busy(w) BY WorkerType DEF Crash, IInv
<1>6. WorkersFit' BY <1>1, <1>2, <1>4, <1>5, MoveStep
<1> QED BY <1>2, <1>4, <1>6, SameRows

(* prepare finds nothing to do, the service answers, persistSuccess finds  *)
(* nothing to record, or a statement fails.                                *)
LEMMA QuietStep ==
    ASSUME IInv, NEW w \in Workers,
           PrepareStale(w) \/ CallReturns(w) \/ PersistNothing(w) \/ StatementFails(w)
    PROVE  IInv'
<1>0. TypeOK BY DEF IInv
<1>1. PICK at \in {"nil", "error", "result", "final", "retryable", "limited"} :
          /\ Become(w, at)
          /\ at \in Calling => worker[w].at \in Calling
    BY DEF PrepareStale, CallReturns, PersistNothing, StatementFails, Calling
<1>2. /\ UNCHANGED rows
      /\ UNCHANGED <<run, next, step, attempts, calls, gaps, job, outlives>>
    BY DEF PrepareStale, CallReturns, PersistNothing, StatementFails, rows
<1>3. faults' \in 0..MaxFaults
    BY FaultsAssumption
       DEF PrepareStale, CallReturns, PersistNothing, StatementFails, IInv, TypeOK
<1>4. Busy(w)
    BY DEF PrepareStale, CallReturns, PersistNothing, StatementFails, Busy
<1> DEFINE new == [worker[w] EXCEPT !.at = at]
<1>5. /\ new \in Worker /\ new.at = at
      /\ new.job = worker[w].job /\ new.attempt = worker[w].attempt
      /\ worker' = [worker EXCEPT ![w] = new]
  <2>1. at \in Points BY DEF Points
  <2>2. Become(w, at) BY <1>1
  <2> QED BY <1>0, <1>4, <2>1, <2>2, BecomeType
<1> HIDE DEF new
<1>6. TypeOK' BY <1>0, <1>2, <1>3, <1>5 DEF TypeOK
<1>7. WorkersFit'
  <2>1. new.at \notin {"idle", "prepare", "snooze", "gap"} BY <1>1, <1>5
  <2> QED BY <1>1, <1>2, <1>4, <1>5, <1>6, <2>1, MoveStep
<1> QED BY <1>2, <1>6, <1>7, SameRows

(* A call that is recorded is of a step its run has reached. *)
LEMMA CallType ==
    ASSUME IInv, NEW w \in Workers, NEW j \in Job, Busy(w), worker[w].job = j,
           worker[w].at \in Calling, NEW status \in {"SUCCEEDED", "FAILED"},
           CreateToolCall(w, j, status)
    PROVE  LET c == [attempt |-> worker[w].attempt, status |-> status]
           IN  /\ calls' \in [Job -> SUBSET ToolCall]
               /\ c \notin calls[j]
               /\ calls'[j] = calls[j] \cup {c}
               /\ \A k \in Job \ {j} : calls'[k] = calls[k]
               /\ \A k \in Job : calls[k] \subseteq calls'[k]
<1> DEFINE c == [attempt |-> worker[w].attempt, status |-> status]
<1>0. TypeOK BY DEF IInv
<1>1. worker[w].attempt \in Nat /\ worker[w].attempt >= 1
    BY <1>0, WorkerType DEF IInv, WorkersFit, WorkerFits
<1>2. c \in ToolCall BY <1>1 DEF ToolCall
<1>3. c \notin calls[j] BY DEF CreateToolCall
<1>4. calls' = [calls EXCEPT ![j] = @ \cup {c}] BY DEF CreateToolCall
<1> HIDE DEF c
<1>5. calls' \in [Job -> SUBSET ToolCall] BY <1>0, <1>2, <1>4 DEF TypeOK
<1>6. calls'[j] = calls[j] \cup {c} /\ \A k \in Job \ {j} : calls'[k] = calls[k]
    BY <1>0, <1>4 DEF TypeOK
<1> QED BY <1>3, <1>5, <1>6 DEF c

LEMMA FailedCallStep ==
    ASSUME IInv, NEW w \in Workers, NEW j \in Job, PersistFailedCall(w, j)
    PROVE  IInv'
<1> DEFINE at == AfterFailure(w)
           new == [worker[w] EXCEPT !.at = at]
           c == FailedCall(worker[w].attempt)
<1>0. TypeOK BY DEF IInv
<1>1. /\ Busy(w) /\ worker[w].job = j /\ worker[w].at \in Calling
      /\ worker[w].at \in {"final", "retryable", "limited"}
      /\ CreateToolCall(w, j, "FAILED") /\ Become(w, at)
      /\ UNCHANGED <<run, next, step, attempts, gaps, job, outlives, faults>>
    BY DEF PersistFailedCall, Busy, Calling
<1>2. /\ at \in {"gap", "snooze", "error"}
      /\ at = "snooze" => worker[w].attempt < GiveUpAt
  <2>1. worker[w].attempt \in Nat BY <1>0, <1>1, WorkerType
  <2> QED BY <2>1 DEF AfterFailure, GiveUpAt
<1> HIDE DEF at
<1>3. /\ calls' \in [Job -> SUBSET ToolCall] /\ calls'[j] = calls[j] \cup {c}
      /\ \A k \in Job \ {j} : calls'[k] = calls[k]
      /\ \A k \in Job : calls[k] \subseteq calls'[k]
    BY <1>1, CallType DEF FailedCall
<1>4. /\ new \in Worker /\ new.at = at
      /\ new.job = worker[w].job /\ new.attempt = worker[w].attempt
      /\ worker' = [worker EXCEPT ![w] = new]
  <2>1. at \in Points BY <1>2 DEF Points
  <2> QED BY <1>0, <1>1, <2>1, BecomeType
<1> HIDE DEF new
<1>5. TypeOK' BY <1>0, <1>1, <1>3, <1>4 DEF TypeOK
<1>6. WorkersFit'
  <2>1. new.at \notin {"idle", "prepare"} BY <1>2, <1>4
  <2>2. c \in calls'[j] BY <1>3
  <2> QED BY <1>1, <1>2, <1>3, <1>4, <1>5, <2>1, <2>2, MoveStep
<1>7. ASSUME NEW k \in Job PROVE JobFits(k)' /\ CallsFit(k)'
  <2>1. JobFits(k)' BY <1>1 DEF IInv, RowsFit, JobFits
  <2>2. Good(k)' = Good(k)
    <3>1. c.status # "SUCCEEDED" BY DEF FailedCall
    <3> HIDE DEF c
    <3> QED BY <1>3, <3>1 DEF Good
  <2>3. j[2] <= next[j[1]]
      BY <1>1 DEF IInv, RowsFit, JobFits, WorkersFit, WorkerFits
  <2>4. j[2] \in Nat /\ next[j[1]] \in Nat BY <1>0, JobPair, NextType
  <2>5. k[2] > next[k[1]] => calls'[k] = calls[k] BY <1>3, <2>3, <2>4
  <2>6. CallsFit(k)' BY <1>1, <1>3, <2>2, <2>5 DEF IInv, RowsFit, CallsFit
  <2> QED BY <2>1, <2>6
<1>8. WaitingExplained'
  <2> SUFFICES ASSUME ~outlives, NEW r \in Runs, run[r] = "WAITING_FOR_INPUT"
               PROVE  /\ step[<<r, next[r]>>] = "FAILED"
                      /\ <<r, next[r]>> \in gaps
                      /\ FailedCall(attempts[<<r, next[r]>>]) \in calls'[<<r, next[r]>>]
      BY <1>1 DEF WaitingExplained, FailedCall
  <2>1. /\ step[<<r, next[r]>>] = "FAILED" /\ <<r, next[r]>> \in gaps
        /\ FailedCall(attempts[<<r, next[r]>>]) \in calls[<<r, next[r]>>]
      BY DEF IInv, RowsFit, WaitingExplained, FailedCall
  <2>2. <<r, next[r]>> \in Job BY <1>0, <2>1 DEF TypeOK
  <2> QED BY <1>3, <2>1, <2>2
<1>9. GapPausesRun' BY <1>1 DEF IInv, RowsFit, GapPausesRun
<1> QED BY <1>5, <1>6, <1>7, <1>8, <1>9 DEF IInv, RowsFit

(* persistGap, without outlived rescues: its run is RUNNING and still at   *)
(* this step, so the gap it opens is the only one of the run.              *)
LEMMA GapStep ==
    ASSUME IInv, NEW w \in Workers, NEW j \in Job, PersistGap(w, j)
    PROVE  IInv'
<1> DEFINE new == [worker[w] EXCEPT !.at = "nil"]
           r == j[1]
<1>0. TypeOK BY DEF IInv
<1>1. /\ Busy(w) /\ worker[w].at = "gap" /\ worker[w].at \in Calling
      /\ worker[w].job = j /\ Become(w, "nil")
      /\ step' = [step EXCEPT ![j] = "FAILED"] /\ gaps' = gaps \cup {j}
      /\ run' = [run EXCEPT ![r] = "WAITING_FOR_INPUT"]
      /\ UNCHANGED <<next, attempts, calls, job, outlives, faults>>
    BY DEF PersistGap, FailStep, CreateDataGap, WaitRunForInput, Busy, Calling
<1>2. /\ r \in Runs /\ j = <<r, j[2]>> BY JobPair
<1>3. /\ new \in Worker /\ new.at = "nil"
      /\ worker' = [worker EXCEPT ![w] = new]
      /\ new.job = worker[w].job /\ new.attempt = worker[w].attempt
  <2>1. "nil" \in Points BY DEF Points
  <2> QED BY <1>0, <1>1, <2>1, BecomeType
<1> HIDE DEF new, r
<1>4. /\ run'[r] = "WAITING_FOR_INPUT"
      /\ \A q \in Runs \ {r} : run'[q] = run[q]
      /\ step'[j] = "FAILED" /\ \A k \in Job \ {j} : step'[k] = step[k]
    BY <1>0, <1>1, <1>2 DEF TypeOK
<1>5. TypeOK' BY <1>0, <1>1, <1>2, <1>3 DEF TypeOK, Ended
<1>6. WorkerFits(w) BY DEF IInv, WorkersFit
<1>7. ~outlives => /\ next[r] = j[2] /\ run[r] = "RUNNING"
                   /\ FailedCall(attempts[j]) \in calls[j]
    BY <1>1, <1>6 DEF WorkerFits, r
<1>8. job[j].state # "none" /\ run[r] # "ABSENT"
    BY <1>1, <1>6 DEF WorkerFits, IInv, RowsFit, JobFits, r
<1>9. WorkersFit'
  <2>1. new.at \notin Calling /\ new.at \notin {"idle", "prepare"}
      BY <1>3 DEF Calling
  <2>2. ASSUME ~outlives, NEW k \in Job \ {j}, run[k[1]] = "RUNNING", next[k[1]] = k[2]
        PROVE  run'[k[1]] = "RUNNING" /\ next'[k[1]] = k[2]
    <3>1. k[1] # r BY <1>2, <1>7, <2>2, JobPair
    <3> QED BY <1>1, <1>4, <2>2, <3>1, JobPair
  <2> QED BY <1>1, <1>3, <1>5, <2>1, <2>2, MoveStep
<1>10. ASSUME NEW k \in Job PROVE JobFits(k)' /\ CallsFit(k)'
  <2>1. k[1] \in Runs BY JobPair
  <2>2. JobFits(k)' BY <1>1, <1>4, <1>8, <2>1 DEF IInv, RowsFit, JobFits
  <2> QED BY <1>1, <2>2 DEF IInv, RowsFit, CallsFit, Good
<1>11. WaitingExplained'
  <2> SUFFICES ASSUME ~outlives, NEW q \in Runs, run'[q] = "WAITING_FOR_INPUT"
               PROVE  /\ step'[<<q, next[q]>>] = "FAILED"
                      /\ <<q, next[q]>> \in gaps'
                      /\ FailedCall(attempts[<<q, next[q]>>]) \in calls[<<q, next[q]>>]
      BY <1>1 DEF WaitingExplained, FailedCall
  <2>1. CASE q = r BY <1>1, <1>2, <1>4, <1>7, <2>1
  <2>2. CASE q # r
    <3>1. /\ step[<<q, next[q]>>] = "FAILED" /\ <<q, next[q]>> \in gaps
          /\ FailedCall(attempts[<<q, next[q]>>]) \in calls[<<q, next[q]>>]
        BY <1>4, <2>2 DEF IInv, RowsFit, WaitingExplained, FailedCall
    <3>2. <<q, next[q]>> \in Job BY <1>0, <3>1 DEF TypeOK
    <3> QED BY <1>1, <1>4, <3>1, <3>2
  <2> QED BY <2>1, <2>2
<1>12. GapPausesRun'
  <2> SUFFICES ASSUME ~outlives, NEW k \in gaps'
               PROVE  run'[k[1]] = "WAITING_FOR_INPUT" /\ next[k[1]] = k[2]
      BY <1>1 DEF GapPausesRun
  <2>1. CASE k = j BY <1>4, <1>7, <2>1 DEF r
  <2>2. CASE k # j
    <3>1. k \in gaps BY <1>1, <2>2
    <3>2. run[k[1]] = "WAITING_FOR_INPUT" /\ next[k[1]] = k[2]
        BY <3>1 DEF IInv, RowsFit, GapPausesRun
    <3>3. k[1] \in Runs BY <1>0, <3>1, JobPair DEF TypeOK
    <3> QED BY <1>4, <3>2, <3>3
  <2> QED BY <2>1, <2>2
<1> QED BY <1>5, <1>9, <1>10, <1>11, <1>12 DEF IInv, RowsFit

(* persistSuccess checks under the lock that its run is still at this      *)
(* step: the step behind next_step then has its one success, the step that *)
(* is queued has neither a job nor a call yet.                             *)
LEMMA SuccessStep ==
    ASSUME IInv, NEW w \in Workers, NEW j \in Job, PersistSuccess(w, j)
    PROVE  IInv'
<1> DEFINE new == [worker[w] EXCEPT !.at = "nil"]
           c == [attempt |-> worker[w].attempt, status |-> "SUCCEEDED"]
           r == j[1]
           n == j[2] + 1
<1>0. TypeOK BY DEF IInv
<1>1. /\ Busy(w) /\ worker[w].at \in Calling /\ worker[w].job = j
      /\ Become(w, "nil") /\ CreateToolCall(w, j, "SUCCEEDED")
      /\ step' = [step EXCEPT ![j] = "SUCCEEDED"]
      /\ next[r] = j[2]
      /\ UNCHANGED <<attempts, gaps, outlives, faults>>
    BY DEF PersistSuccess, Superseded, CompleteStep, Busy, Calling
<1>2. /\ r \in Runs /\ j = <<r, j[2]>> /\ j[2] \in Nat /\ n \in 1..(Steps + 1)
      /\ n \in Nat /\ n > j[2]
    BY JobPair, StepsAssumption
<1>3. WorkerFits(w) BY DEF IInv, WorkersFit
<1>4. /\ job[j].state # "none" /\ run[r] # "ABSENT"
      /\ ~outlives => run[r] = "RUNNING"
    BY <1>1, <1>3 DEF WorkerFits, IInv, RowsFit, JobFits
<1>5. /\ next' = [next EXCEPT ![r] = n]
      /\ run' = [run EXCEPT ![r] = "SUCCEEDED"] \/ run' = run
      /\ job' = job \/ (n <= Steps /\ job' = [job EXCEPT ![<<r, n>>] = Queued])
  <2>1. CASE j[2] = Steps BY <2>1 DEF PersistSuccess, CompleteRun
  <2>2. CASE j[2] # Steps
    <3>1. n <= Steps BY <2>2, JobPair, StepsAssumption
    <3> QED BY <2>2, <3>1 DEF PersistSuccess, AdvanceRun, EnqueueNext
  <2> QED BY <2>1, <2>2
<1>6. /\ new \in Worker /\ new.at = "nil"
      /\ worker' = [worker EXCEPT ![w] = new]
      /\ new.job = worker[w].job /\ new.attempt = worker[w].attempt
  <2>1. "nil" \in Points BY DEF Points
  <2> QED BY <1>0, <1>1, <2>1, BecomeType
<1>7. /\ calls' \in [Job -> SUBSET ToolCall]
      /\ calls'[j] = calls[j] \cup {c}
      /\ \A k \in Job \ {j} : calls'[k] = calls[k]
      /\ \A k \in Job : calls[k] \subseteq calls'[k]
    BY <1>1, CallType
<1>c. c.status = "SUCCEEDED" OBVIOUS
<1> HIDE DEF new, c, r, n
<1>8. /\ next'[r] = n /\ \A q \in Runs \ {r} : next'[q] = next[q] /\ run'[q] = run[q]
      /\ run'[r] \in {run[r], "SUCCEEDED"}
    BY <1>0, <1>2, <1>5 DEF TypeOK
<1>9. ASSUME NEW k \in Job
      PROVE  \/ job'[k] = job[k]
             \/ k = <<r, n>> /\ job[k].state = "none" /\ job'[k] = Queued
  <2>1. CASE job' = job BY <2>1
  <2>2. CASE n <= Steps /\ job' = [job EXCEPT ![<<r, n>>] = Queued]
    <3>1. job'[k] = IF k = <<r, n>> THEN Queued ELSE job[k] BY <1>0, <2>2 DEF TypeOK
    <3>2. k = <<r, n>> => job[k].state = "none"
        BY <1>1, <1>2 DEF IInv, RowsFit, JobFits
    <3> QED BY <3>1, <3>2
  <2> QED BY <1>5, <2>1, <2>2
<1>10. TypeOK'
  <2>1. Queued \in JobRow(MaxAttempts) BY DEF Queued, JobRow, MaxAttempts
  <2>2. job' \in [Job -> JobRow(MaxAttempts)] BY <1>0, <1>5, <2>1 DEF TypeOK
  <2>3. run' \in [Runs -> {"ABSENT"} \cup Active \cup Ended]
      BY <1>0, <1>5 DEF TypeOK, Ended
  <2>4. /\ next' \in [Runs -> 1..(Steps + 1)]
        /\ step' \in [Job -> {None, "PENDING", "RUNNING", "SUCCEEDED", "FAILED"}]
        /\ worker' \in [Workers -> Worker]
      BY <1>0, <1>1, <1>2, <1>5, <1>6 DEF TypeOK
  <2> QED BY <1>0, <1>1, <1>7, <2>2, <2>3, <2>4 DEF TypeOK
<1>11. WorkersFit'
  <2>1. new.at \notin Calling /\ new.at \notin {"idle", "prepare", "snooze", "gap"}
      BY <1>6 DEF Calling
  <2>2. ASSUME ~outlives, NEW k \in Job \ {j}, run[k[1]] = "RUNNING", next[k[1]] = k[2]
        PROVE  run'[k[1]] = "RUNNING" /\ next'[k[1]] = k[2]
    <3>1. k[1] # r BY <1>1, <1>2, <2>2, JobPair
    <3> QED BY <1>8, <2>2, <3>1, JobPair
  <2> QED BY <1>1, <1>6, <1>7, <1>9, <1>10, <2>1, <2>2, MoveStep
<1>12. ASSUME NEW k \in Job PROVE JobFits(k)' /\ CallsFit(k)'
  <2>1. /\ k = <<k[1], k[2]>> /\ k[1] \in Runs /\ k[2] \in Nat
        /\ next[k[1]] \in Nat
      BY <1>0, JobPair, NextType
  <2>2. JobFits(k)'
    <3>1. JobFits(k) BY DEF IInv, RowsFit
    <3>2. next[k[1]] <= next'[k[1]] /\ next'[k[1]] \in Nat
        BY <1>1, <1>2, <1>8, <2>1
    <3>3. run[k[1]] # "ABSENT" => run'[k[1]] # "ABSENT" BY <1>8, <2>1
    <3>4. CASE job'[k] = job[k] BY <1>1, <2>1, <3>1, <3>2, <3>3, <3>4 DEF JobFits
    <3>5. CASE k = <<r, n>> /\ job'[k] = Queued
      <4>1. k[1] = r /\ k[2] = n BY <3>5
      <4> QED BY <1>2, <1>4, <1>8, <3>5, <4>1 DEF JobFits, Queued, MaxAttempts
    <3> QED BY <1>9, <3>4, <3>5
  <2> SUFFICES CallsFit(k)' BY <2>2
  <2>3. CallsFit(k) BY DEF IInv, RowsFit
  <2>4. CASE k = j
    <3>1. Good(j) = {}
        BY <1>1, <2>1, <2>3, <2>4 DEF CallsFit, r
    <3>2. Good(k)' = {c} BY <1>7, <1>c, <2>4, <3>1 DEF Good
    <3>3. c \in calls'[k] BY <1>7, <2>4
    <3>4. /\ next'[k[1]] \in Nat /\ k[2] < next'[k[1]]
        BY <1>2, <1>8, <2>4 DEF r
    <3>5. ~(k[2] >= next'[k[1]]) /\ ~(k[2] > next'[k[1]]) BY <2>1, <3>4
    <3> QED BY <3>2, <3>3, <3>5 DEF CallsFit
  <2>5. CASE k # j
    <3>1. calls'[k] = calls[k] /\ Good(k)' = Good(k) BY <1>7, <2>5 DEF Good
    <3>2. CASE k[1] # r
      <4>1. next'[k[1]] = next[k[1]] BY <1>8, <2>1, <3>2
      <4> QED BY <2>3, <3>1, <4>1 DEF CallsFit
    <3>3. CASE k[1] = r
      <4>1. k[2] # j[2] BY <1>2, <2>1, <2>5, <3>3
      <4>2. next'[k[1]] = n /\ next[k[1]] = j[2] BY <1>1, <1>8, <3>3
      <4>3. /\ k[2] < next'[k[1]] => k[2] < next[k[1]]
            /\ k[2] >= next'[k[1]] => k[2] >= next[k[1]]
            /\ k[2] > next'[k[1]] => k[2] > next[k[1]]
          BY <1>2, <2>1, <4>1, <4>2 DEF n
      <4> QED BY <2>3, <3>1, <4>3 DEF CallsFit
    <3> QED BY <3>2, <3>3
  <2> QED BY <2>4, <2>5
<1>13. WaitingExplained'
  <2> SUFFICES ASSUME ~outlives, NEW q \in Runs, run'[q] = "WAITING_FOR_INPUT"
               PROVE  /\ step'[<<q, next'[q]>>] = "FAILED"
                      /\ <<q, next'[q]>> \in gaps
                      /\ FailedCall(attempts[<<q, next'[q]>>]) \in calls'[<<q, next'[q]>>]
      BY <1>1 DEF WaitingExplained, FailedCall
  <2>1. q # r /\ run[q] = "WAITING_FOR_INPUT" /\ next'[q] = next[q] BY <1>4, <1>8
  <2>2. /\ step[<<q, next[q]>>] = "FAILED" /\ <<q, next[q]>> \in gaps
        /\ FailedCall(attempts[<<q, next[q]>>]) \in calls[<<q, next[q]>>]
      BY <2>1 DEF IInv, RowsFit, WaitingExplained, FailedCall
  <2>3. <<q, next[q]>> \in Job /\ <<q, next[q]>> # j
      BY <1>0, <1>2, <2>1, <2>2 DEF TypeOK
  <2>4. step'[<<q, next[q]>>] = step[<<q, next[q]>>] BY <1>0, <1>1, <2>3 DEF TypeOK
  <2> QED BY <1>7, <2>1, <2>2, <2>3, <2>4
<1>14. GapPausesRun'
  <2> SUFFICES ASSUME ~outlives, NEW k \in gaps
               PROVE  run'[k[1]] = "WAITING_FOR_INPUT" /\ next'[k[1]] = k[2]
      BY <1>1 DEF GapPausesRun
  <2>1. run[k[1]] = "WAITING_FOR_INPUT" /\ next[k[1]] = k[2]
      BY DEF IInv, RowsFit, GapPausesRun
  <2>2. k[1] \in Runs /\ k[1] # r BY <1>0, <1>4, <2>1, JobPair DEF TypeOK
  <2> QED BY <1>8, <2>1, <2>2
<1> QED BY <1>10, <1>11, <1>12, <1>13, <1>14 DEF IInv, RowsFit

(* prepare hands out the next attempt of the step and pays for it with the *)
(* preparation it ends.                                                    *)
LEMMA PrepareStepStep ==
    ASSUME IInv, NEW w \in Workers, NEW j \in Job, PrepareStep(w, j)
    PROVE  IInv'
<1> DEFINE n == attempts[j] + 1
           new == [at |-> "call", job |-> j, attempt |-> n]
           r == j[1]
<1>0. TypeOK BY DEF IInv
<1>1. /\ worker[w].at = "prepare" /\ worker[w].job = j /\ Busy(w)
      /\ run[r] \notin Ended /\ next[r] = j[2]
      /\ run' = [run EXCEPT ![r] = IF @ = "QUEUED" THEN "RUNNING" ELSE @]
      /\ step' = [step EXCEPT ![j] = "RUNNING"]
      /\ attempts' = [attempts EXCEPT ![j] = n]
      /\ worker' = [worker EXCEPT ![w] = new]
      /\ UNCHANGED <<next, calls, gaps, job, outlives, faults>>
    BY DEF PrepareStep, Stale, MarkRunRunning, MarkStepRunning, Busy
<1>2. /\ r \in Runs /\ attempts[j] \in Nat /\ n \in Nat /\ n >= 1
      /\ attempts[j] < n
    BY <1>0, JobPair DEF TypeOK
<1>3. /\ new \in Worker /\ new.at = "call" /\ new.job = j /\ new.attempt = n
    BY <1>2 DEF Worker
<1> HIDE DEF new, n, r
<1>4. /\ job[j].state # "none"
      /\ ~outlives => job[j].state = "running"
    BY <1>1 DEF IInv, WorkersFit, WorkerFits
<1>5. run[r] \in {"QUEUED", "RUNNING"}
  <2>1. run[r] # "ABSENT" BY <1>4 DEF IInv, RowsFit, JobFits, r
  <2> QED BY <1>0, <1>1, <1>2, <2>1 DEF TypeOK, Active
<1>6. /\ run'[r] = "RUNNING" /\ \A q \in Runs \ {r} : run'[q] = run[q]
      /\ attempts'[j] = n /\ \A k \in Job \ {j} : attempts'[k] = attempts[k]
      /\ step'[j] = "RUNNING" /\ \A k \in Job \ {j} : step'[k] = step[k]
      /\ worker'[w] = new /\ \A v \in Workers \ {w} : worker'[v] = worker[v]
    BY <1>0, <1>1, <1>2, <1>5 DEF TypeOK
<1>7. TypeOK'
  <2>1. run' \in [Runs -> {"ABSENT"} \cup Active \cup Ended]
      BY <1>0, <1>1 DEF TypeOK, Active
  <2>2. /\ step' \in [Job -> {None, "PENDING", "RUNNING", "SUCCEEDED", "FAILED"}]
        /\ attempts' \in [Job -> Nat] /\ worker' \in [Workers -> Worker]
      BY <1>0, <1>1, <1>2, <1>3 DEF TypeOK
  <2> QED BY <1>0, <1>1, <2>1, <2>2 DEF TypeOK
<1>8. ASSUME NEW v \in Workers, Busy(v), v # w
      PROVE  /\ ~outlives => worker[v].job # j
             /\ worker[v].job = j => worker[v].attempt < n /\ worker[v].attempt \in Nat
  <2>1. ~outlives => worker[v].job # j
      BY <1>1, <1>8 DEF IInv, WorkersFit, Distinct
  <2>2. worker[v].attempt \in Nat BY <1>0, <1>8, WorkerType
  <2>3. worker[v].job = j => worker[v].attempt <= attempts[j]
      BY <1>8 DEF IInv, WorkersFit, WorkerFits
  <2> QED BY <1>2, <2>1, <2>2, <2>3
<1>9. ASSUME NEW v \in Workers PROVE WorkerFits(v)'
  <2>1. CASE v = w
      BY <1>1, <1>2, <1>3, <1>4, <1>6, <2>1 DEF WorkerFits, r
  <2>2. CASE v # w /\ Busy(v)
    <3>1. PICK k \in Job : worker[v].job = k BY <1>0, <2>2, WorkerType
    <3>2. WorkerFits(v) /\ worker'[v] = worker[v] BY <1>6, <2>2 DEF IInv, WorkersFit
    <3>3. CASE k = j
      <4>1. /\ outlives /\ worker[v].attempt <= n BY <1>2, <1>8, <2>2, <3>1, <3>3
      <4> QED BY <1>1, <1>6, <2>2, <3>1, <3>2, <3>3, <4>1 DEF WorkerFits, Busy
    <3>4. CASE k # j
      <4>1. run[k[1]] = "RUNNING" => run'[k[1]] = "RUNNING" BY <1>6, JobPair
      <4> QED BY <1>1, <1>6, <2>2, <3>1, <3>2, <3>4, <4>1 DEF WorkerFits, Busy
    <3> QED BY <3>3, <3>4
  <2>3. CASE v # w /\ ~Busy(v) BY <1>6, <2>3 DEF WorkerFits, Busy
  <2> QED BY <2>1, <2>2, <2>3
<1>10. Distinct'
  <2> SUFFICES ASSUME NEW u \in Workers, NEW v \in Workers, u # v,
                      Busy(u)', Busy(v)', worker'[u].job = worker'[v].job
               PROVE  outlives /\ (worker'[u].attempt = worker'[v].attempt
                                     => worker'[u].attempt = 0)
      BY <1>1 DEF Distinct
  <2>1. CASE u # w /\ v # w
      BY <1>6, <2>1 DEF IInv, WorkersFit, Distinct, Busy
  <2>2. CASE u = w
    <3>1. Busy(v) /\ worker'[v] = worker[v] /\ worker[v].job = j
        BY <1>3, <1>6, <2>2 DEF Busy
    <3> QED BY <1>2, <1>3, <1>6, <1>8, <2>2, <3>1
  <2>3. CASE v = w
    <3>1. Busy(u) /\ worker'[u] = worker[u] /\ worker[u].job = j
        BY <1>3, <1>6, <2>3 DEF Busy
    <3> QED BY <1>2, <1>3, <1>6, <1>8, <2>3, <3>1
  <2> QED BY <2>1, <2>2, <2>3
<1>11. ASSUME NEW k \in Job PROVE Budget(k)'
  <2>0. Budget(k) BY DEF IInv, WorkersFit
  <2>1. ASSUME NEW m \in {1, 2}, Over(k, m) PROVE Over(k, m)'
    <3>1. m <= attempts[k] /\ attempts[k] \in Nat BY <1>0, <2>1 DEF Over, TypeOK
    <3>2. m <= attempts'[k] BY <1>2, <1>6, <3>1
    <3>3. k = j => m # n BY <1>2, <3>1
    <3> QED BY <1>3, <1>6, <2>1, <3>2, <3>3 DEF Over
  <2>2. CASE k # j
    <3>1. Preparing(k)' \subseteq Preparing(k) BY <1>3, <1>6 DEF Preparing
    <3> QED BY <1>0, <1>1, <1>6, <1>7, <2>0, <2>1, <2>2, <3>1, BudgetLasts
               DEF TypeOK, JobRow, MaxAttempts
  <2>3. CASE k = j
    <3>1. Preparing(j)' = Preparing(j) \ {w} BY <1>3, <1>6 DEF Preparing
    <3>2. w \in Preparing(j) BY <1>1 DEF Preparing
    <3>3. Cardinality(Preparing(j)') = Cardinality(Preparing(j)) - 1
        BY <3>1, <3>2, PreparingIsFinite, FS_RemoveElement
    <3>4. /\ Snoozed(j, 1)' \in {0, 1} /\ Snoozed(j, 2)' \in {0, 1}
          /\ Snoozed(j, 1) \in {0, 1} /\ Snoozed(j, 2) \in {0, 1}
          /\ Snoozed(j, 1) <= Snoozed(j, 1)' /\ Snoozed(j, 2) <= Snoozed(j, 2)'
        BY <2>1, <2>3 DEF Snoozed
    <3>5. job[j].tries \in Nat BY <1>0 DEF TypeOK, JobRow, MaxAttempts
    <3>6. attempts'[j] + Cardinality(Preparing(j)')
            = attempts[j] + Cardinality(Preparing(j))
        BY <1>2, <1>6, <3>3, PreparingIsFinite DEF n
    <3>7. attempts[j] + Cardinality(Preparing(j))
            <= job[j].tries + Snoozed(j, 1)' + Snoozed(j, 2)'
        BY <1>2, <2>0, <2>3, <3>4, <3>5, PreparingIsFinite DEF Budget
    <3> QED BY <1>1, <2>3, <3>6, <3>7 DEF Budget
  <2> QED BY <2>2, <2>3
<1>12. ASSUME NEW k \in Job PROVE JobFits(k)' /\ CallsFit(k)'
  <2>1. k[1] \in Runs BY JobPair
  <2>2. JobFits(k)'
    <3>1. JobFits(k) BY DEF IInv, RowsFit
    <3>2. run[k[1]] # "ABSENT" => run'[k[1]] # "ABSENT" BY <1>6, <2>1
    <3>3. job[k].state = "none" => attempts'[k] = attempts[k] BY <1>4, <1>6
    <3> QED BY <1>1, <3>1, <3>2, <3>3 DEF JobFits
  <2> QED BY <1>1, <2>2 DEF IInv, RowsFit, CallsFit, Good
<1>13. WaitingExplained'
  <2> SUFFICES ASSUME ~outlives, NEW q \in Runs, run'[q] = "WAITING_FOR_INPUT"
               PROVE  /\ step'[<<q, next[q]>>] = "FAILED"
                      /\ <<q, next[q]>> \in gaps
                      /\ FailedCall(attempts'[<<q, next[q]>>]) \in calls[<<q, next[q]>>]
      BY <1>1 DEF WaitingExplained, FailedCall
  <2>1. q # r /\ run[q] = "WAITING_FOR_INPUT" BY <1>6
  <2>2. /\ step[<<q, next[q]>>] = "FAILED" /\ <<q, next[q]>> \in gaps
        /\ FailedCall(attempts[<<q, next[q]>>]) \in calls[<<q, next[q]>>]
      BY <2>1 DEF IInv, RowsFit, WaitingExplained, FailedCall
  <2>3. <<q, next[q]>> \in Job /\ <<q, next[q]>> # j
      BY <1>0, <2>1, <2>2 DEF TypeOK, r
  <2> QED BY <1>6, <2>2, <2>3
<1>14. GapPausesRun'
  <2> SUFFICES ASSUME ~outlives, NEW k \in gaps
               PROVE  run'[k[1]] = "WAITING_FOR_INPUT" /\ next[k[1]] = k[2]
      BY <1>1 DEF GapPausesRun
  <2>1. run[k[1]] = "WAITING_FOR_INPUT" /\ next[k[1]] = k[2]
      BY DEF IInv, RowsFit, GapPausesRun
  <2>2. k[1] \in Runs /\ k[1] # r BY <1>0, <1>5, <2>1, JobPair DEF TypeOK
  <2> QED BY <1>6, <2>1, <2>2
<1>15. WorkersFit' BY <1>9, <1>10, <1>11 DEF WorkersFit
<1> QED BY <1>7, <1>12, <1>13, <1>14, <1>15 DEF IInv, RowsFit

(* A run that is created has no job, no attempt and no worker yet. *)
LEMMA CreateRunStep ==
    ASSUME IInv, NEW r \in Runs, CreateReadinessRun(r)
    PROVE  IInv'
<1>0. TypeOK BY DEF IInv
<1>1. /\ run[r] = "ABSENT" /\ run' = [run EXCEPT ![r] = "QUEUED"]
      /\ step' = [j \in Job |-> IF j[1] = r THEN "PENDING" ELSE step[j]]
      /\ job' = [job EXCEPT ![<<r, 1>>] = Queued]
      /\ UNCHANGED <<next, attempts, calls, gaps, worker, outlives, faults>>
    BY DEF CreateReadinessRun, CreateRun, CreateStep
<1>2. /\ run'[r] = "QUEUED" /\ \A q \in Runs \ {r} : run'[q] = run[q]
      /\ \A j \in Job : job'[j] = IF j = <<r, 1>> THEN Queued ELSE job[j]
      /\ \A j \in Job : j[1] # r => step'[j] = step[j]
    BY <1>0, <1>1 DEF TypeOK
<1>3. \A j \in Job : j[1] = r => job[j].state = "none"
    BY <1>1 DEF IInv, RowsFit, JobFits
<1>4. Queued.state = "available" /\ Queued.tries = 0 /\ Queued \in JobRow(MaxAttempts)
    BY DEF Queued, JobRow, MaxAttempts
<1>5. TypeOK'
  <2>1. /\ run' \in [Runs -> {"ABSENT"} \cup Active \cup Ended]
        /\ step' \in [Job -> {None, "PENDING", "RUNNING", "SUCCEEDED", "FAILED"}]
        /\ job' \in [Job -> JobRow(MaxAttempts)]
      BY <1>0, <1>1, <1>4 DEF TypeOK, Active
  <2> QED BY <1>0, <1>1, <2>1 DEF TypeOK
<1>6. ASSUME NEW w \in Workers PROVE WorkerFits(w)'
  <2>1. CASE Busy(w)
    <3>1. PICK j \in Job : worker[w].job = j BY <1>0, <2>1, WorkerType
    <3>2. WorkerFits(w) BY DEF IInv, WorkersFit
    <3>3. job[j].state # "none" BY <2>1, <3>1, <3>2 DEF WorkerFits
    <3>4. j[1] # r /\ j[1] \in Runs BY <1>3, <3>3, JobPair
    <3>5. job'[j] = job[j] /\ run'[j[1]] = run[j[1]] BY <1>2, <3>4
    <3> QED BY <1>1, <2>1, <3>1, <3>2, <3>5 DEF WorkerFits, Busy
  <2>2. CASE ~Busy(w) BY <1>1, <2>2 DEF WorkerFits, Busy
  <2> QED BY <2>1, <2>2
<1>7. Distinct' BY <1>1 DEF IInv, WorkersFit, Distinct, Busy
<1>8. ASSUME NEW j \in Job PROVE Budget(j)'
  <2>1. job'[j].tries = job[j].tries
    <3>1. CASE j = <<r, 1>>
      <4>1. job[j].state = "none" BY <1>3, <3>1
      <4> QED BY <1>2, <1>4, <3>1, <4>1 DEF IInv, RowsFit, JobFits
    <3> QED BY <1>2, <3>1
  <2>2. job[j].tries \in Nat BY <1>0 DEF TypeOK, JobRow, MaxAttempts
  <2>3. Preparing(j)' \subseteq Preparing(j) BY <1>1 DEF Preparing
  <2>4. (Over(j, 1) => Over(j, 1)') /\ (Over(j, 2) => Over(j, 2)') BY <1>1 DEF Over
  <2>5. job'[j].tries >= job[j].tries BY <2>1, <2>2
  <2> QED BY <1>0, <1>1, <1>5, <2>3, <2>4, <2>5, BudgetLasts DEF IInv, WorkersFit
<1>9. ASSUME NEW j \in Job PROVE JobFits(j)' /\ CallsFit(j)'
  <2>1. JobFits(j)'
    <3>1. CASE j = <<r, 1>>
      <4>1. next[r] \in Nat /\ 1 <= next[r] BY <1>0, NextType
      <4>2. j[1] = r /\ j[2] = 1 /\ job'[j] = Queued BY <1>2, <3>1
      <4> QED BY <1>1, <1>2, <1>4, <4>1, <4>2 DEF JobFits, MaxAttempts
    <3>2. CASE j # <<r, 1>>
      <4>1. job'[j] = job[j] BY <1>2, <3>2
      <4>2. run[j[1]] # "ABSENT" => run'[j[1]] # "ABSENT" BY <1>2, JobPair
      <4> QED BY <1>1, <4>1, <4>2 DEF IInv, RowsFit, JobFits
    <3> QED BY <3>1, <3>2
  <2> QED BY <1>1, <2>1 DEF IInv, RowsFit, CallsFit, Good
<1>10. WaitingExplained'
  <2> SUFFICES ASSUME ~outlives, NEW q \in Runs, run'[q] = "WAITING_FOR_INPUT"
               PROVE  /\ step'[<<q, next[q]>>] = "FAILED"
                      /\ <<q, next[q]>> \in gaps
                      /\ FailedCall(attempts[<<q, next[q]>>]) \in calls[<<q, next[q]>>]
      BY <1>1 DEF WaitingExplained, FailedCall
  <2>1. q # r /\ run[q] = "WAITING_FOR_INPUT" BY <1>2
  <2>2. /\ step[<<q, next[q]>>] = "FAILED" /\ <<q, next[q]>> \in gaps
        /\ FailedCall(attempts[<<q, next[q]>>]) \in calls[<<q, next[q]>>]
      BY <2>1 DEF IInv, RowsFit, WaitingExplained, FailedCall
  <2>3. <<q, next[q]>> \in Job BY <1>0, <2>2 DEF TypeOK
  <2> QED BY <1>2, <2>1, <2>2, <2>3
<1>11. GapPausesRun'
  <2> SUFFICES ASSUME ~outlives, NEW k \in gaps
               PROVE  run'[k[1]] = "WAITING_FOR_INPUT" /\ next[k[1]] = k[2]
      BY <1>1 DEF GapPausesRun
  <2>1. run[k[1]] = "WAITING_FOR_INPUT" /\ next[k[1]] = k[2]
      BY DEF IInv, RowsFit, GapPausesRun
  <2>2. k[1] \in Runs /\ k[1] # r BY <1>0, <1>1, <2>1, JobPair DEF TypeOK
  <2> QED BY <1>2, <2>1, <2>2
<1> QED BY <1>5, <1>6, <1>7, <1>8, <1>9, <1>10, <1>11 DEF IInv, RowsFit, WorkersFit

-----------------------------------------------------------------------------
(* The queue settles a job: the rows of the run stay, those of the queue   *)
(* stay coherent.                                                          *)
LEMMA QueueStep ==
    ASSUME IInv, TypeOK', UNCHANGED rows, UNCHANGED outlives, NEW j \in Job,
           NEW row \in JobRow(MaxAttempts), job' = [job EXCEPT ![j] = row],
           row.state = "available" => row.tries < MaxAttempts,
           row.state = "running" => row.tries >= 1,
           row.state = "none" <=> job[j].state = "none",
           row.state = "none" => row.tries = 0,
           WorkersFit'
    PROVE  IInv'
<1>0. TypeOK BY DEF IInv
<1>1. UNCHANGED <<run, next, step, attempts, calls, gaps>> BY DEF rows
<1>2. \A k \in Job : job'[k] = IF k = j THEN row ELSE job[k] BY <1>0 DEF TypeOK
<1>3. ASSUME NEW k \in Job PROVE JobFits(k)' /\ CallsFit(k)'
  <2>1. JobFits(k) /\ CallsFit(k) BY DEF IInv, RowsFit
  <2>2. CallsFit(k)' BY <1>1, <2>1 DEF CallsFit, Good
  <2>3. job'[k] = IF k = j THEN row ELSE job[k] BY <1>2
  <2>4. JobFits(k)' BY <1>1, <2>1, <2>3 DEF JobFits
  <2> QED BY <2>2, <2>4
<1>4. WaitingExplained' /\ GapPausesRun'
    BY <1>1 DEF IInv, RowsFit, WaitingExplained, GapPausesRun
<1> QED BY <1>3, <1>4 DEF IInv, RowsFit

(* The queue hands a job out: the try it counts pays for the preparation.  *)
LEMMA FetchStep ==
    ASSUME IInv, NEW w \in Workers, NEW j \in Job, Fetch(w, j)
    PROVE  IInv'
<1> DEFINE row == Fetched(job[j])
           new == [at |-> "prepare", job |-> j, attempt |-> 0]
<1>0. TypeOK /\ JobFits(j) BY DEF IInv, RowsFit
<1>1. /\ worker[w] = Idle /\ ~Busy(w) /\ job[j].state = "available"
      /\ job' = [job EXCEPT ![j] = row] /\ worker' = [worker EXCEPT ![w] = new]
      /\ UNCHANGED rows
      /\ UNCHANGED <<run, next, step, attempts, calls, gaps, outlives, faults>>
    BY DEF Fetch, rows, Busy, Idle
<1>2. /\ job[j] \in JobRow(MaxAttempts) /\ job[j].tries \in Nat
      /\ row \in JobRow(MaxAttempts) /\ row.state = "running"
      /\ row.tries = job[j].tries + 1 /\ row.tries >= 1
  <2>1. job[j] \in JobRow(MaxAttempts) BY <1>0 DEF TypeOK
  <2>2. job[j].tries < MaxAttempts BY <1>0, <1>1 DEF JobFits
  <2> QED BY <1>1, <2>1, <2>2 DEF Fetched, JobRow, MaxAttempts
<1>3. /\ new \in Worker /\ new.at = "prepare" /\ new.job = j /\ new.attempt = 0
    BY DEF Worker
<1> HIDE DEF row, new
<1>4. TypeOK' BY <1>0, <1>1, <1>2, <1>3 DEF TypeOK
<1>5. /\ job'[j] = row /\ \A k \in Job \ {j} : job'[k] = job[k]
      /\ worker'[w] = new /\ \A v \in Workers \ {w} : worker'[v] = worker[v]
    BY <1>0, <1>1 DEF TypeOK
<1>6. ASSUME NEW v \in Workers, Busy(v)
      PROVE  v # w /\ (~outlives => worker[v].job # j)
  <2>1. WorkerFits(v) BY DEF IInv, WorkersFit
  <2> QED BY <1>1, <1>6, <2>1 DEF WorkerFits
<1>7. ASSUME NEW v \in Workers PROVE WorkerFits(v)'
  <2>1. CASE v = w
    <3>1. attempts[j] \in Nat /\ 0 <= attempts[j] BY <1>0 DEF TypeOK
    <3> QED BY <1>1, <1>2, <1>3, <1>5, <2>1, <3>1 DEF WorkerFits, Calling
  <2>2. CASE v # w /\ Busy(v)
    <3>1. PICK k \in Job : worker[v].job = k BY <1>0, <2>2, WorkerType
    <3>2. WorkerFits(v) BY DEF IInv, WorkersFit
    <3>3. job'[k].state # "none"
        BY <1>2, <1>5, <2>2, <3>1, <3>2 DEF WorkerFits
    <3>4. ~outlives => job'[k] = job[k] BY <1>5, <1>6, <2>2, <3>1
    <3> QED BY <1>1, <1>5, <2>2, <3>1, <3>2, <3>3, <3>4 DEF WorkerFits, Busy
  <2>3. CASE v # w /\ ~Busy(v) BY <1>5, <2>3 DEF WorkerFits, Busy
  <2> QED BY <2>1, <2>2, <2>3
<1>8. Distinct'
  <2> SUFFICES ASSUME NEW u \in Workers, NEW v \in Workers, u # v,
                      Busy(u)', Busy(v)', worker'[u].job = worker'[v].job
               PROVE  outlives /\ (worker'[u].attempt = worker'[v].attempt
                                     => worker'[u].attempt = 0)
      BY <1>1 DEF Distinct
  <2>1. CASE u # w /\ v # w
      BY <1>5, <2>1 DEF IInv, WorkersFit, Distinct, Busy
  <2>2. CASE u = w
    <3>1. Busy(v) /\ worker[v].job = j BY <1>3, <1>5, <2>2 DEF Busy
    <3> QED BY <1>3, <1>5, <1>6, <2>2, <3>1
  <2>3. CASE v = w
    <3>1. Busy(u) /\ worker[u].job = j BY <1>3, <1>5, <2>3 DEF Busy
    <3> QED BY <1>3, <1>5, <1>6, <2>3, <3>1
  <2> QED BY <2>1, <2>2, <2>3
<1>9. ASSUME NEW k \in Job PROVE Budget(k)'
  <2>0. Budget(k) BY DEF IInv, WorkersFit
  <2>i. Idle.at = "idle" /\ Idle.attempt = 0 BY DEF Idle
  <2>1. ASSUME NEW m \in {1, 2}, Over(k, m) PROVE Over(k, m)'
      BY <1>1, <1>3, <1>5, <2>1 DEF Over
  <2>2. CASE k # j
    <3>1. Preparing(k)' \subseteq Preparing(k) BY <1>3, <1>5, <2>2 DEF Preparing
    <3>2. job'[k].tries >= job[k].tries
        BY <1>0, <1>5, <2>2 DEF TypeOK, JobRow, MaxAttempts
    <3> QED BY <1>0, <1>1, <1>4, <2>0, <2>1, <3>1, <3>2, BudgetLasts
  <2>3. CASE k = j
    <3>1. Preparing(j)' = Preparing(j) \cup {w} BY <1>3, <1>5 DEF Preparing
    <3>2. w \notin Preparing(j) BY <1>1, <2>i DEF Preparing
    <3>3. Cardinality(Preparing(j)') = Cardinality(Preparing(j)) + 1
        BY <3>1, <3>2, PreparingIsFinite, FS_AddElement
    <3>4. /\ Snoozed(j, 1)' \in {0, 1} /\ Snoozed(j, 2)' \in {0, 1}
          /\ Snoozed(j, 1) \in {0, 1} /\ Snoozed(j, 2) \in {0, 1}
          /\ Snoozed(j, 1) <= Snoozed(j, 1)' /\ Snoozed(j, 2) <= Snoozed(j, 2)'
        BY <2>1, <2>3 DEF Snoozed
    <3>5. attempts[j] \in Nat /\ attempts'[j] = attempts[j]
          /\ job'[j].tries = job[j].tries + 1
        BY <1>0, <1>1, <1>2, <1>5 DEF TypeOK
    <3>6. attempts'[j] + Cardinality(Preparing(j)')
            <= job'[j].tries + Snoozed(j, 1)' + Snoozed(j, 2)'
        BY <1>2, <2>0, <2>3, <3>3, <3>4, <3>5, PreparingIsFinite DEF Budget
    <3> QED BY <2>3, <3>6 DEF Budget
  <2> QED BY <2>2, <2>3
<1>10. WorkersFit' BY <1>7, <1>8, <1>9 DEF WorkersFit
<1>11. row.state = "none" <=> job[j].state = "none" BY <1>1, <1>2
<1> QED BY <1>1, <1>2, <1>4, <1>10, <1>11, QueueStep

(* Work returned.  A snooze gives the try back for an attempt that is over *)
(* and that nobody else can give back again.                               *)
LEMMA ReturnStep ==
    ASSUME IInv, NEW w \in Workers, Return(w)
    PROVE  IInv'
<1>0. TypeOK BY DEF IInv
<1>1. /\ Busy(w) /\ worker[w].at \in {"nil", "error", "snooze"}
      /\ worker' = [worker EXCEPT ![w] = Idle] /\ UNCHANGED rows
      /\ UNCHANGED <<run, next, step, attempts, calls, gaps, outlives, faults>>
    BY DEF Return, rows, Busy
<1>2. PICK j \in Job : worker[w].job = j BY <1>0, <1>1, WorkerType
<1> DEFINE row == Settled(job[j], worker[w].at, MaxAttempts)
<1>3. WorkerFits(w) /\ JobFits(j) BY DEF IInv, WorkersFit, RowsFit
<1>4. /\ row \in JobRow(MaxAttempts) /\ job[j] \in JobRow(MaxAttempts)
      /\ row.state = "available" => row.tries < MaxAttempts
      /\ row.state = "running" => row.tries >= 1
      /\ row.state = "none" <=> job[j].state = "none"
      /\ row.tries = IF job[j].state = "running" /\ worker[w].at = "snooze"
                     THEN job[j].tries - 1 ELSE job[j].tries
  <2>1. job[j] \in JobRow(MaxAttempts) BY <1>0 DEF TypeOK
  <2>2. /\ job[j].state = "available" => job[j].tries < MaxAttempts
        /\ job[j].state = "running" => job[j].tries >= 1
      BY <1>3 DEF JobFits
  <2> QED BY <1>1, <2>1, <2>2, QueueRows
<1> HIDE DEF row
<1>5. job' = [job EXCEPT ![j] = row] BY <1>2 DEF Return, row
<1>6. Idle \in Worker /\ Idle.at = "idle" /\ Idle.attempt = 0 BY DEF Idle, Worker
<1>7. TypeOK' BY <1>0, <1>1, <1>4, <1>5, <1>6 DEF TypeOK
<1>8. /\ job'[j] = row /\ \A k \in Job \ {j} : job'[k] = job[k]
      /\ worker'[w] = Idle /\ \A v \in Workers \ {w} : worker'[v] = worker[v]
    BY <1>0, <1>1, <1>5 DEF TypeOK
<1>9. job[j].state # "none" BY <1>1, <1>2, <1>3 DEF WorkerFits
<1>10. ASSUME NEW v \in Workers, Busy(v), v # w
       PROVE  /\ ~outlives => worker[v].job # j
              /\ worker[v].job = j /\ worker[v].attempt = worker[w].attempt
                   => worker[v].attempt = 0
    BY <1>1, <1>2, <1>10 DEF IInv, WorkersFit, Distinct
<1>11. ASSUME NEW v \in Workers PROVE WorkerFits(v)'
  <2>1. CASE v # w /\ Busy(v)
    <3>1. PICK k \in Job : worker[v].job = k BY <1>0, <2>1, WorkerType
    <3>2. WorkerFits(v) BY DEF IInv, WorkersFit
    <3>3. job'[k].state # "none" BY <1>4, <1>8, <2>1, <3>1, <3>2 DEF WorkerFits
    <3>4. ~outlives => job'[k] = job[k] BY <1>8, <1>10, <2>1, <3>1
    <3> QED BY <1>1, <1>8, <2>1, <3>1, <3>2, <3>3, <3>4 DEF WorkerFits, Busy
  <2>2. CASE v # w /\ ~Busy(v) BY <1>8, <2>2 DEF WorkerFits, Busy
  <2>3. CASE v = w BY <1>6, <1>8, <2>3 DEF WorkerFits, Busy
  <2> QED BY <2>1, <2>2, <2>3
<1>12. Distinct' BY <1>1, <1>6, <1>8 DEF IInv, WorkersFit, Distinct, Busy
<1>13. ASSUME NEW k \in Job PROVE Budget(k)'
  <2>0. Budget(k) BY DEF IInv, WorkersFit
  <2>1. ASSUME NEW m \in {1, 2}, Over(k, m) PROVE Over(k, m)'
      BY <1>1, <1>6, <1>8, <2>1 DEF Over
  <2>2. Preparing(k)' \subseteq Preparing(k) BY <1>6, <1>8 DEF Preparing
  <2>3. CASE k # j \/ row.tries = job[j].tries
    <3>1. job'[k].tries = job[k].tries /\ job[k].tries \in Nat
        BY <1>0, <1>8, <2>3 DEF TypeOK, JobRow, MaxAttempts
    <3>2. job'[k].tries >= job[k].tries BY <3>1
    <3> QED BY <1>0, <1>1, <1>7, <2>0, <2>1, <2>2, <3>2, BudgetLasts
  <2>4. CASE k = j /\ row.tries # job[j].tries
    <3>1. /\ worker[w].at = "snooze" /\ row.tries = job[j].tries - 1
          /\ row.tries \in Nat /\ job[j].tries \in Nat
        BY <1>4, <2>4 DEF JobRow, MaxAttempts
    <3>2. PICK n \in {1, 2} : worker[w].attempt = n
      <4>1. worker[w].attempt \in Nat BY <1>0, <1>1, WorkerType
      <4>2. worker[w].attempt >= 1 /\ worker[w].attempt < 3
          BY <1>1, <1>3, <3>1 DEF WorkerFits, Calling, GiveUpAt
      <4> QED BY <4>1, <4>2
    <3>3. ~Over(j, n) BY <1>2, <3>2 DEF Over
    <3>4. Over(j, n)'
      <4>1. n <= attempts[j] BY <1>1, <1>2, <1>3, <3>2 DEF WorkerFits
      <4>2. ASSUME NEW v \in Workers, worker'[v].job = j, worker'[v].attempt = n
            PROVE  FALSE
        <5>1. v # w /\ worker'[v] = worker[v] BY <1>6, <1>8, <3>2, <4>2
        <5>2. Busy(v) BY <1>0, <4>2, <5>1, <3>2, WorkerType
        <5> QED BY <1>10, <3>2, <4>2, <5>1, <5>2
      <4> QED BY <1>1, <4>1, <4>2 DEF Over
    <3>5. Snoozed(j, n) = 0 /\ Snoozed(j, n)' = 1 BY <3>3, <3>4 DEF Snoozed
    <3>6. ASSUME NEW m \in {1, 2}
          PROVE  /\ Snoozed(j, m) \in {0, 1} /\ Snoozed(j, m)' \in {0, 1}
                 /\ Snoozed(j, m) <= Snoozed(j, m)'
        BY <2>1, <2>4 DEF Snoozed
    <3>7. Snoozed(j, 1)' + Snoozed(j, 2)' >= Snoozed(j, 1) + Snoozed(j, 2) + 1
      <4>1. CASE n = 1 BY <3>5, <3>6, <4>1
      <4>2. CASE n = 2 BY <3>5, <3>6, <4>2
      <4> QED BY <3>2, <4>1, <4>2
    <3>8. Cardinality(Preparing(j)') <= Cardinality(Preparing(j))
          /\ Cardinality(Preparing(j)') \in Nat
      <4>1. Preparing(j)' \in SUBSET Preparing(j) BY <2>2, <2>4
      <4> HIDE DEF Preparing
      <4> QED BY <4>1, PreparingIsFinite, FS_Subset, FS_CardinalityType
    <3>9. attempts[j] \in Nat /\ attempts'[j] = attempts[j] /\ job'[j].tries = row.tries
        BY <1>0, <1>1, <1>8 DEF TypeOK
    <3>10. Snoozed(j, 1) \in {0, 1} /\ Snoozed(j, 2) \in {0, 1}
           /\ Snoozed(j, 1)' \in {0, 1} /\ Snoozed(j, 2)' \in {0, 1}
        BY <3>6
    <3>11. attempts[j] + Cardinality(Preparing(j))
             <= job[j].tries + Snoozed(j, 1) + Snoozed(j, 2)
        BY <2>0, <2>4 DEF Budget
    <3>12. attempts'[j] + Cardinality(Preparing(j)')
             <= job'[j].tries + Snoozed(j, 1)' + Snoozed(j, 2)'
        BY <3>1, <3>7, <3>8, <3>9, <3>10, <3>11, PreparingIsFinite
    <3> QED BY <2>4, <3>12 DEF Budget
  <2> QED BY <2>3, <2>4
<1>14. WorkersFit' BY <1>11, <1>12, <1>13 DEF WorkersFit
<1> QED BY <1>1, <1>4, <1>5, <1>7, <1>9, <1>14, QueueStep

(* A rescue takes the job from whoever holds it; the try stays counted. *)
LEMMA RescueStep ==
    ASSUME IInv, NEW j \in Job, Rescue(j)
    PROVE  IInv'
<1> DEFINE row == Retried(job[j], MaxAttempts)
<1>0. TypeOK /\ JobFits(j) BY DEF IInv, RowsFit
<1>1. /\ job[j].state = "running"
      /\ Orphaned(j) \/ outlives
      /\ job' = [job EXCEPT ![j] = row] /\ UNCHANGED rows
      /\ UNCHANGED <<run, next, step, attempts, calls, gaps, worker, outlives>>
    BY DEF Rescue, rows
<1>2. faults' \in 0..MaxFaults BY <1>0, FaultsAssumption DEF Rescue, TypeOK
<1>3. /\ row \in JobRow(MaxAttempts) /\ job[j].tries \in Nat
      /\ row.tries = job[j].tries /\ row.state \in {"available", "discarded"}
      /\ row.state = "available" => row.tries < MaxAttempts
  <2>1. job[j] \in JobRow(MaxAttempts) BY <1>0 DEF TypeOK
  <2> QED BY <1>0, <1>1, <2>1 DEF JobFits, JobRow, Retried, MaxAttempts
<1> HIDE DEF row
<1>4. TypeOK' BY <1>0, <1>1, <1>2, <1>3 DEF TypeOK
<1>5. job'[j] = row /\ \A k \in Job \ {j} : job'[k] = job[k] BY <1>0, <1>1 DEF TypeOK
<1>6. ASSUME NEW v \in Workers PROVE WorkerFits(v)'
  <2>1. CASE Busy(v)
    <3>1. PICK k \in Job : worker[v].job = k BY <1>0, <2>1, WorkerType
    <3>2. WorkerFits(v) BY DEF IInv, WorkersFit
    <3>3. job'[k].state # "none" BY <1>3, <1>5, <2>1, <3>1, <3>2 DEF WorkerFits
    <3>4. ~outlives => job'[k] = job[k] BY <1>1, <1>5, <3>1 DEF Orphaned
    <3> QED BY <1>1, <2>1, <3>1, <3>2, <3>3, <3>4 DEF WorkerFits, Busy
  <2>2. CASE ~Busy(v) BY <1>1, <2>2 DEF WorkerFits, Busy
  <2> QED BY <2>1, <2>2
<1>7. Distinct' BY <1>1 DEF IInv, WorkersFit, Distinct, Busy
<1>8. ASSUME NEW k \in Job PROVE Budget(k)'
  <2>1. job'[k].tries >= job[k].tries
      BY <1>0, <1>3, <1>5 DEF TypeOK, JobRow, MaxAttempts
  <2>2. Preparing(k)' \subseteq Preparing(k) BY <1>1 DEF Preparing
  <2>3. (Over(k, 1) => Over(k, 1)') /\ (Over(k, 2) => Over(k, 2)') BY <1>1 DEF Over
  <2> QED BY <1>0, <1>1, <1>4, <2>1, <2>2, <2>3, BudgetLasts DEF IInv, WorkersFit
<1>9. WorkersFit' BY <1>6, <1>7, <1>8 DEF WorkersFit
<1>10. row.state # "none" /\ row.state # "running" BY <1>3
<1> QED BY <1>1, <1>3, <1>4, <1>9, <1>10, QueueStep

-----------------------------------------------------------------------------
LEMMA InitInv == Init => IInv
<1> SUFFICES ASSUME Init PROVE IInv OBVIOUS
<1>1. TypeOK
  <2>1. NoJob \in JobRow(MaxAttempts) BY DEF NoJob, JobRow, MaxAttempts
  <2>2. 1 \in 1..(Steps + 1) /\ 0 \in 0..MaxFaults
      BY StepsAssumption, FaultsAssumption
  <2> QED BY <2>1, <2>2 DEF Init, TypeOK, Worker
<1>2. ASSUME NEW j \in Job PROVE JobFits(j) /\ CallsFit(j) /\ Budget(j)
  <2>1. j[1] \in Runs /\ j[2] \in Nat /\ 1 <= j[2] BY JobPair
  <2>2. /\ next[j[1]] = 1 /\ calls[j] = {} /\ attempts[j] = 0 /\ job[j] = NoJob
      BY <2>1 DEF Init
  <2>3. NoJob.state = "none" /\ NoJob.tries = 0 BY DEF NoJob
  <2>4. JobFits(j) BY <2>2, <2>3 DEF JobFits
  <2>5. Good(j) = {} BY <2>2 DEF Good
  <2>6. CallsFit(j) BY <2>1, <2>2, <2>5 DEF CallsFit
  <2>7. Preparing(j) = {} BY DEF Init, Preparing, Idle
  <2>8. Cardinality(Preparing(j)) = 0 BY <2>7, FS_EmptySet
  <2>9. Snoozed(j, 1) \in {0, 1} /\ Snoozed(j, 2) \in {0, 1} BY DEF Snoozed
  <2>10. Budget(j) BY <2>2, <2>3, <2>8, <2>9 DEF Budget
  <2> QED BY <2>4, <2>6, <2>10
<1>3. ASSUME NEW w \in Workers PROVE ~Busy(w) BY DEF Init, Idle, Busy
<1>4. Distinct /\ \A w \in Workers : WorkerFits(w) BY <1>3 DEF Distinct, WorkerFits
<1>5. WaitingExplained /\ GapPausesRun
    BY DEF Init, WaitingExplained, GapPausesRun
<1> QED BY <1>1, <1>2, <1>4, <1>5 DEF IInv, RowsFit, WorkersFit

LEMMA NextInv == IInv /\ [Next]_vars => IInv'
<1> SUFFICES ASSUME IInv, [Next]_vars PROVE IInv' OBVIOUS
<1>1. CASE Next
  <2>1. ASSUME NEW w \in Workers, Work(w) PROVE IInv'
      BY <2>1, QuietStep, FailedCallStep, GapStep, SuccessStep, PrepareStepStep,
         ReturnStep DEF Work
  <2> QED BY <1>1, <2>1, CreateRunStep, FetchStep, QuietStep, IdleStep, RescueStep
             DEF Next
<1>2. CASE UNCHANGED vars
  <2>1. /\ UNCHANGED rows
        /\ UNCHANGED <<run, next, step, attempts, calls, gaps, job, worker, outlives, faults>>
      BY <1>2 DEF vars, rows
  <2>2. TypeOK' BY <2>1 DEF IInv, TypeOK
  <2>3. \A w \in Workers : WorkerFits(w)'
      BY <2>1 DEF IInv, WorkersFit, WorkerFits, Busy
  <2>4. Distinct' BY <2>1 DEF IInv, WorkersFit, Distinct, Busy
  <2>5. \A j \in Job : Budget(j)'
      BY <2>1 DEF IInv, WorkersFit, Budget, Snoozed, Over, Preparing
  <2> QED BY <2>1, <2>2, <2>3, <2>4, <2>5, SameRows DEF WorkersFit
<1> QED BY <1>1, <1>2

LEMMA Invariance == Spec => []IInv
BY InitInv, NextInv, PTL DEF Spec

-----------------------------------------------------------------------------
(* The rows are typed, and, while no worker outlives the rescue of its     *)
(* job, a run waits exactly when it has a gap that says why (persistGap).  *)
THEOREM RunIsConsistent == Spec => []RunConsistent
<1>1. IInv => RunConsistent BY DEF IInv, RowsFit, RunConsistent
<1> QED BY <1>1, Invariance, PTL

(* Whatever was retried, rescued or outlived: one successful call for each *)
(* step a run is past, none for the one it is at, and no call beyond it    *)
(* (prepare, persistSuccess).                                              *)
THEOREM CallsSucceedOnce == Spec => []OneSuccessPerStep
<1>1. IInv => OneSuccessPerStep
  <2> SUFFICES ASSUME IInv, NEW j \in Job
               PROVE  /\ Cardinality(Good(j)) = IF j[2] < next[j[1]] THEN 1 ELSE 0
                      /\ j[2] > next[j[1]] => calls[j] = {}
      BY DEF OneSuccessPerStep, Good
  <2>1. CallsFit(j) /\ j[2] \in Nat /\ next[j[1]] \in Nat
      BY JobPair, NextType DEF IInv, RowsFit
  <2>2. CASE j[2] < next[j[1]]
    <3>1. PICK c \in calls[j] : Good(j) = {c} BY <2>1, <2>2 DEF CallsFit
    <3>2. Cardinality(Good(j)) = 1 BY <3>1, FS_Singleton
    <3> QED BY <2>1, <2>2, <3>2 DEF CallsFit
  <2>3. CASE ~(j[2] < next[j[1]])
    <3>1. Good(j) = {} BY <2>1, <2>3 DEF CallsFit
    <3>2. Cardinality(Good(j)) = 0 BY <3>1, FS_EmptySet
    <3> QED BY <2>1, <2>3, <3>2 DEF CallsFit
  <2> QED BY <2>2, <2>3
<1> QED BY <1>1, Invariance, PTL

(* However often its job is snoozed, retried or rescued, a step is         *)
(* attempted at most MaxAttempts + GiveUpAt - 1 times (Work, River).       *)
THEOREM AttemptsLimited == Spec => []AttemptsBounded
<1>1. IInv => AttemptsBounded
  <2> SUFFICES ASSUME IInv, NEW j \in Job
               PROVE  attempts[j] <= MaxAttempts + GiveUpAt - 1
      BY DEF AttemptsBounded
  <2>1. Budget(j) BY DEF IInv, WorkersFit
  <2>2. Snoozed(j, 1) \in {0, 1} /\ Snoozed(j, 2) \in {0, 1} BY DEF Snoozed
  <2>3. /\ attempts[j] \in Nat /\ job[j].tries \in Nat /\ job[j].tries <= 3
      BY DEF IInv, TypeOK, JobRow, MaxAttempts
  <2> QED BY <2>1, <2>2, <2>3, PreparingIsFinite DEF Budget, MaxAttempts, GiveUpAt
<1> QED BY <1>1, Invariance, PTL

(* A run is past its last step only once it ended: whatever still works for *)
(* it finds that the run is at another step than its job, or pauses it.     *)
PastIsEnded == \A r \in Runs : next[r] > Steps => run[r] \in Ended

LEMMA PastStays ==
    ASSUME TypeOK, PastIsEnded, Next, NEW r \in Runs
    PROVE  /\ next'[r] > Steps => run'[r] \in Ended
           /\ next[r] > Steps => next'[r] = next[r]
<1> USE DEF PastIsEnded
<1>0. next[r] \in Nat BY NextType
<1>1. CASE UNCHANGED <<run, next>> BY <1>1
<1>2. ASSUME NEW w \in Workers, NEW j \in Job, PersistSuccess(w, j)
      PROVE  /\ next'[r] > Steps => run'[r] \in Ended
             /\ next[r] > Steps => next'[r] = next[r]
  <2>1. /\ next[j[1]] = j[2] /\ j[1] \in Runs
        /\ j[2] \in Nat /\ j[2] <= Steps /\ Steps \in Nat
      BY <1>2, JobPair, StepsAssumption DEF PersistSuccess, Superseded
  <2>2. CASE r # j[1]
      BY <1>2, <2>1, <2>2 DEF PersistSuccess, CompleteRun, AdvanceRun, TypeOK
  <2>3. CASE r = j[1] /\ j[2] = Steps
    <3>1. run'[r] = "SUCCEEDED"
        BY <1>2, <2>1, <2>3 DEF PersistSuccess, CompleteRun, TypeOK
    <3> QED BY <2>1, <2>3, <3>1 DEF Ended
  <2>4. CASE r = j[1] /\ j[2] # Steps
    <3>1. next'[r] = j[2] + 1
        BY <1>2, <2>1, <2>4 DEF PersistSuccess, AdvanceRun, TypeOK
    <3> QED BY <2>1, <2>4, <3>1
  <2> QED BY <2>2, <2>3, <2>4
<1>3. ASSUME NEW w \in Workers, NEW j \in Job, PersistGap(w, j)
      PROVE  /\ next'[r] > Steps => run'[r] \in Ended
             /\ next[r] > Steps => next'[r] = next[r]
  <2>1. next' = next /\ (run'[r] = run[r] \/ run'[r] = "WAITING_FOR_INPUT")
      BY <1>3 DEF PersistGap, WaitRunForInput, TypeOK
  <2> QED BY <2>1 DEF Ended
<1>4. ASSUME NEW w \in Workers, NEW j \in Job, PrepareStep(w, j)
      PROVE  /\ next'[r] > Steps => run'[r] \in Ended
             /\ next[r] > Steps => next'[r] = next[r]
  <2>1. next' = next /\ (run'[r] = run[r] \/ run[r] = "QUEUED")
      BY <1>4 DEF PrepareStep, MarkRunRunning, TypeOK
  <2> QED BY <2>1 DEF Ended
<1>5. ASSUME NEW q \in Runs, CreateReadinessRun(q)
      PROVE  /\ next'[r] > Steps => run'[r] \in Ended
             /\ next[r] > Steps => next'[r] = next[r]
  <2>1. next' = next /\ (run'[r] = run[r] \/ run[r] = "ABSENT")
      BY <1>5 DEF CreateReadinessRun, CreateRun, TypeOK
  <2> QED BY <2>1 DEF Ended
<1>6. ASSUME NEW w \in Workers, Work(w)
      PROVE  /\ next'[r] > Steps => run'[r] \in Ended
             /\ next[r] > Steps => next'[r] = next[r]
  <2>1. CASE PrepareStale(w) \/ CallReturns(w) \/ PersistNothing(w) \/ Return(w)
      BY <1>1, <2>1 DEF PrepareStale, CallReturns, PersistNothing, Return, rows
  <2>2. ASSUME NEW j \in Job, PersistFailedCall(w, j) PROVE UNCHANGED <<run, next>>
      BY <2>2 DEF PersistFailedCall
  <2> QED BY <1>1, <1>2, <1>3, <1>4, <1>6, <2>1, <2>2 DEF Work
<1> QED BY <1>1, <1>5, <1>6 DEF Next, Fetch, StatementFails, Crash, Rescue, rows

LEMMA PastInvariance == Spec => []PastIsEnded
<1>1. Init => PastIsEnded BY StepsAssumption DEF Init, PastIsEnded
<1>2. TypeOK /\ PastIsEnded /\ [Next]_vars => PastIsEnded'
  <2> SUFFICES ASSUME TypeOK, PastIsEnded, [Next]_vars, NEW r \in Runs
               PROVE  next'[r] > Steps => run'[r] \in Ended
      BY DEF PastIsEnded
  <2>1. CASE Next BY <2>1, PastStays
  <2>2. CASE UNCHANGED vars BY <2>2 DEF vars, rows, PastIsEnded
  <2> QED BY <2>1, <2>2
<1>3. IInv => TypeOK BY DEF IInv
<1> QED BY <1>1, <1>2, <1>3, Invariance, PTL DEF Spec

(* A run that ended stays as it is while no worker outlives the rescue of  *)
(* its job: prepare refuses it, and whoever is past prepare works for a    *)
(* run that is RUNNING.  Past its last step it stays ended in any case.    *)
THEOREM EndedRunStays == Spec => EndedRunIsFinal
<1>1. ASSUME IInv, Next, ~outlives, NEW r \in Runs, run[r] \in Ended
      PROVE  run'[r] = run[r] /\ next'[r] = next[r]
  <2>0. TypeOK BY <1>1 DEF IInv
  <2>1. CASE UNCHANGED <<run, next>> BY <2>1
  <2>2. ASSUME NEW w \in Workers, NEW j \in Job, worker[w].at \in Calling,
               worker[w].job = j
        PROVE  j[1] # r
    <3>1. Busy(w) BY <2>2 DEF Busy, Calling
    <3>2. run[j[1]] = "RUNNING"
        BY <1>1, <2>2, <3>1 DEF IInv, WorkersFit, WorkerFits
    <3> QED BY <1>1, <3>2 DEF Ended
  <2>3. ASSUME NEW w \in Workers, NEW j \in Job, PersistSuccess(w, j)
        PROVE  run'[r] = run[r] /\ next'[r] = next[r]
    <3>1. j[1] # r BY <2>2, <2>3 DEF PersistSuccess, Calling
    <3> QED BY <2>0, <2>3, <3>1 DEF PersistSuccess, CompleteRun, AdvanceRun, TypeOK
  <2>4. ASSUME NEW w \in Workers, NEW j \in Job, PersistGap(w, j)
        PROVE  run'[r] = run[r] /\ next'[r] = next[r]
    <3>1. j[1] # r BY <2>2, <2>4 DEF PersistGap, Calling
    <3> QED BY <2>0, <2>4, <3>1 DEF PersistGap, WaitRunForInput, TypeOK
  <2>5. ASSUME NEW w \in Workers, NEW j \in Job, PrepareStep(w, j)
        PROVE  run'[r] = run[r] /\ next'[r] = next[r]
    <3>1. j[1] # r BY <1>1, <2>5 DEF PrepareStep, Stale
    <3> QED BY <2>0, <2>5, <3>1 DEF PrepareStep, MarkRunRunning, TypeOK
  <2>6. ASSUME NEW q \in Runs, CreateReadinessRun(q)
        PROVE  run'[r] = run[r] /\ next'[r] = next[r]
    <3>1. q # r BY <1>1, <2>6 DEF CreateReadinessRun, Ended
    <3> QED BY <2>0, <2>6, <3>1 DEF CreateReadinessRun, CreateRun, TypeOK
  <2>7. ASSUME NEW w \in Workers, NEW j \in Job, PersistFailedCall(w, j)
        PROVE  UNCHANGED <<run, next>>
      BY <2>7 DEF PersistFailedCall
  <2>8. ASSUME NEW w \in Workers, Work(w)
        PROVE  run'[r] = run[r] /\ next'[r] = next[r]
    <3>1. CASE PrepareStale(w) \/ CallReturns(w) \/ PersistNothing(w) \/ Return(w)
        BY <3>1 DEF PrepareStale, CallReturns, PersistNothing, Return, rows
    <3> QED BY <2>3, <2>4, <2>5, <2>7, <2>8, <3>1 DEF Work
  <2> QED BY <1>1, <2>1, <2>6, <2>8 DEF Next, Fetch, StatementFails, Crash, Rescue, rows
<1>2. IInv /\ PastIsEnded /\ Next =>
        \A r \in Runs :
          /\ ~outlives /\ run[r] \in Ended => run'[r] = run[r] /\ next'[r] = next[r]
          /\ next[r] > Steps => run'[r] \in Ended /\ next'[r] = next[r]
    BY <1>1, PastStays DEF IInv
<1> QED BY <1>2, Invariance, PastInvariance, PTL DEF Spec, EndedRunIsFinal
=============================================================================
