----------------------------- MODULE Readiness -----------------------------
(***************************************************************************)
(* The MIREYE_READINESS setup guard (internal/agent): a run makes three    *)
(* read-only calls in order, each by one River job that prepares the step, *)
(* makes the call outside any transaction and persists what came of it.    *)
(*                                                                         *)
(* The queue hands an available job to a worker, takes its answer, and     *)
(* rescues a job that stayed "running" too long.  A worker dies with its   *)
(* process, a statement fails with the connection, and a worker whose      *)
(* process was suspended may outlive the rescue of its job; MaxFaults      *)
(* bounds how often any of this happens.                                   *)
(***************************************************************************)
EXTENDS River, FiniteSets

CONSTANTS
    Runs,
    Steps,      \* the calls of a run, in order: 3 in the code
    Workers,    \* executions of readiness jobs at the same time
    MaxFaults,  \* bound on crashes, failed statements and outlived rescues
    Zombies,    \* whether a worker may outlive the rescue of its job: the choices
    None

ASSUME StepsAssumption == Steps \in Nat \ {0}
ASSUME FaultsAssumption == MaxFaults \in Nat /\ Zombies \subseteq BOOLEAN
ASSUME WorkersAssumption == IsFiniteSet(Workers)

Positions == 1..Steps
Job == Runs \X Positions
MaxAttempts == 3    \* of a River job (InsertOpts)
GiveUpAt == 3       \* attempts of a step after which a failed call is a gap

VARIABLES
    run, next,        \* agent_runs: status ("ABSENT" before the insert), next_step
    step, attempts,   \* agent_steps: status, attempt_count
    calls,            \* tool_calls of each step: the attempt and how it ended
    gaps,             \* the steps with an OPEN data gap
    job,              \* River's job of each step: its state and its attempts
    worker,           \* what each worker is at, for which job and attempt
    outlives,         \* whether workers outlive rescues in this behaviour
    faults

rows == <<run, next, step, attempts, calls, gaps>>
vars == <<rows, job, worker, outlives, faults>>

Active == {"QUEUED", "RUNNING"}
Ended == {"WAITING_FOR_INPUT", "SUCCEEDED"}
ToolCall == [attempt: Nat \ {0}, status: {"SUCCEEDED", "FAILED"}]

Idle == [at |-> "idle", job |-> None, attempt |-> 0]

Init ==
    /\ run = [r \in Runs |-> "ABSENT"]
    /\ next = [r \in Runs |-> 1]
    /\ step = [j \in Job |-> None]
    /\ attempts = [j \in Job |-> 0]
    /\ calls = [j \in Job |-> {}]
    /\ gaps = {}
    /\ job = [j \in Job |-> NoJob]
    /\ worker = [w \in Workers |-> Idle]
    /\ outlives \in Zombies
    /\ faults = 0

-----------------------------------------------------------------------------
(* CreateRun: the partial unique index allows one active run. *)
CreateRun(r) ==
    /\ \A q \in Runs : run[q] \notin Active
    /\ run' = [run EXCEPT ![r] = "QUEUED"]

CreateStep(r) == step' = [j \in Job |-> IF j[1] = r THEN "PENDING" ELSE step[j]]

(* The run, its steps and its first job are one transaction; a request     *)
(* that finds another run active is answered with that one.                *)
CreateReadinessRun(r) ==
    /\ run[r] = "ABSENT"
    /\ CreateRun(r)
    /\ CreateStep(r)
    /\ job' = [job EXCEPT ![<<r, 1>>] = Queued]
    /\ UNCHANGED <<next, attempts, calls, gaps, worker, outlives, faults>>

(* River hands a job to a worker. *)
Fetch(w, j) ==
    /\ worker[w] = Idle
    /\ job[j].state = "available"
    /\ job' = [job EXCEPT ![j] = Fetched(@)]
    /\ worker' = [worker EXCEPT ![w] = [at |-> "prepare", job |-> j, attempt |-> 0]]
    /\ UNCHANGED <<rows, outlives, faults>>

Become(w, at) == worker' = [worker EXCEPT ![w].at = at]

(* prepare: the job has nothing left to do. *)
StaleStep(j) == next[j[1]] # j[2] \/ step[j] = "SUCCEEDED"
Stale(j) ==
    \/ run[j[1]] \in Ended
    \/ next[j[1]] # j[2]
    \/ step[j] = "SUCCEEDED"

PrepareStale(w) ==
    /\ worker[w].at = "prepare"
    /\ Stale(worker[w].job)
    /\ Become(w, "nil")
    /\ UNCHANGED <<rows, job, outlives, faults>>

MarkRunRunning(r) == run' = [run EXCEPT ![r] = IF @ = "QUEUED" THEN "RUNNING" ELSE @]

MarkStepRunning(j) ==
    /\ step' = [step EXCEPT ![j] = "RUNNING"]
    /\ attempts' = [attempts EXCEPT ![j] = @ + 1]

PrepareStep(w, j) ==
    /\ worker[w].at = "prepare"
    /\ worker[w].job = j
    /\ ~Stale(j)
    /\ MarkRunRunning(j[1])
    /\ MarkStepRunning(j)
    /\ worker' = [worker EXCEPT ![w] =
         [at |-> "call", job |-> j, attempt |-> attempts[j] + 1]]
    /\ UNCHANGED <<next, calls, gaps, job, outlives, faults>>

(* mireye.Call: a result, or an error that is final, retryable, or         *)
(* retryable after the delay the service asks for.                         *)
CallReturns(w) ==
    /\ worker[w].at = "call"
    /\ \E answer \in {"result", "final", "retryable", "limited"} :
         Become(w, answer)
    /\ UNCHANGED <<rows, job, outlives, faults>>

-----------------------------------------------------------------------------
(* CreateToolCall: UNIQUE (step_id, attempt). *)
CreateToolCall(w, j, status) ==
    /\ \A c \in calls[j] : c.attempt # worker[w].attempt
    /\ calls' = [calls EXCEPT ![j] =
                    @ \cup {[attempt |-> worker[w].attempt, status |-> status]}]

SupersededUnchecked(j) == FALSE
Superseded(j) == step[j] = "SUCCEEDED" \/ next[j[1]] # j[2]

PersistNothing(w) ==
    /\ worker[w].at = "result"
    /\ Superseded(worker[w].job)
    /\ Become(w, "nil")
    /\ UNCHANGED <<rows, job, outlives, faults>>

CompleteStep(j) == step' = [step EXCEPT ![j] = "SUCCEEDED"]

(* The last step completes the run, any other one makes way for the next.  *)
CompleteRun(r) ==
    /\ run' = [run EXCEPT ![r] = "SUCCEEDED"]
    /\ next' = [next EXCEPT ![r] = Steps + 1]
    /\ UNCHANGED job

AdvanceRun(r, n) == next' = [next EXCEPT ![r] = n] /\ UNCHANGED run

EnqueueNothing(r, n) == UNCHANGED job
EnqueueNext(r, n) == job' = [job EXCEPT ![<<r, n>>] = Queued]

PersistSuccess(w, j) ==
    /\ worker[w].at = "result"
    /\ worker[w].job = j
    /\ ~Superseded(j)
    /\ CreateToolCall(w, j, "SUCCEEDED")
    /\ CompleteStep(j)
    /\ IF j[2] = Steps THEN CompleteRun(j[1])
       ELSE AdvanceRun(j[1], j[2] + 1) /\ EnqueueNext(j[1], j[2] + 1)
    /\ Become(w, "nil")
    /\ UNCHANGED <<attempts, gaps, outlives, faults>>

(* What Work does once the failed call is recorded. *)
AfterFailureByTries(w) ==
    IF worker[w].at = "final" \/ job[worker[w].job].tries >= GiveUpAt THEN "gap"
    ELSE IF worker[w].at = "limited" THEN "snooze"
    ELSE "error"

AfterFailure(w) ==
    IF worker[w].at = "final" \/ worker[w].attempt >= GiveUpAt THEN "gap"
    ELSE IF worker[w].at = "limited" THEN "snooze"
    ELSE "error"

(* persistFailedCall, in a statement of its own. *)
PersistFailedCall(w, j) ==
    /\ worker[w].at \in {"final", "retryable", "limited"}
    /\ worker[w].job = j
    /\ CreateToolCall(w, j, "FAILED")
    /\ Become(w, AfterFailure(w))
    /\ UNCHANGED <<run, next, step, attempts, gaps, job, outlives, faults>>

FailNothing(j) == UNCHANGED step
FailStep(j) == step' = [step EXCEPT ![j] = "FAILED"]

(* CreateDataGap: the gap of this step is opened, or kept with new words. *)
CreateDataGap(j) == gaps' = gaps \cup {j}

WaitRunForInput(r) == run' = [run EXCEPT ![r] = "WAITING_FOR_INPUT"]

(* persistGap locks the run but checks neither its status nor next_step. *)
PersistGap(w, j) ==
    /\ worker[w].at = "gap"
    /\ worker[w].job = j
    /\ FailStep(j)
    /\ CreateDataGap(j)
    /\ WaitRunForInput(j[1])
    /\ Become(w, "nil")
    /\ UNCHANGED <<next, attempts, calls, job, outlives, faults>>

-----------------------------------------------------------------------------
(* Work returned: River settles the job, if it still counts as running. *)
Return(w) ==
    /\ worker[w].at \in {"nil", "snooze", "error"}
    /\ job' = [job EXCEPT ![worker[w].job] = Settled(@, worker[w].at, MaxAttempts)]
    /\ worker' = [worker EXCEPT ![w] = Idle]
    /\ UNCHANGED <<rows, outlives, faults>>

(* A statement or a transaction fails: it rolls back and Work returns the error. *)
StatementFails(w) ==
    /\ worker[w].at \in {"prepare", "result", "final", "retryable", "limited", "gap"}
    /\ faults < MaxFaults
    /\ faults' = faults + 1
    /\ Become(w, "error")
    /\ UNCHANGED <<rows, job, outlives>>

(* The process dies: River still counts the job as running. *)
Crash(w) ==
    /\ worker[w] # Idle
    /\ faults < MaxFaults
    /\ faults' = faults + 1
    /\ worker' = [worker EXCEPT ![w] = Idle]
    /\ UNCHANGED <<rows, job, outlives>>

(* River's rescuer knows a stuck job by its age only. *)
Orphaned(j) == \A w \in Workers : worker[w].job # j

Rescue(j) ==
    /\ job[j].state = "running"
    /\ IF Orphaned(j) THEN UNCHANGED faults
       ELSE outlives /\ faults < MaxFaults /\ faults' = faults + 1
    /\ job' = [job EXCEPT ![j] = Retried(@, MaxAttempts)]
    /\ UNCHANGED <<rows, worker, outlives>>

Work(w) ==
    \/ PrepareStale(w)
    \/ CallReturns(w)
    \/ PersistNothing(w)
    \/ \E j \in Job :
         \/ PrepareStep(w, j)
         \/ PersistSuccess(w, j)
         \/ PersistFailedCall(w, j)
         \/ PersistGap(w, j)
    \/ Return(w)

Next ==
    \/ \E r \in Runs : CreateReadinessRun(r)
    \/ \E w \in Workers : \/ \E j \in Job : Fetch(w, j)
                          \/ Work(w)
                          \/ StatementFails(w)
                          \/ Crash(w)
    \/ \E j \in Job : Rescue(j)

Spec == Init /\ [][Next]_vars

(* River keeps fetching and rescuing, and the timeouts end every call and  *)
(* transaction of a worker.                                                *)
Fairness ==
    /\ \A w \in Workers : WF_vars(Work(w))
    /\ \A j \in Job : /\ WF_vars(\E w \in Workers : Fetch(w, j))
                      /\ WF_vars(Orphaned(j) /\ Rescue(j))
FairSpec == Spec /\ Fairness

-----------------------------------------------------------------------------
Worker == {Idle} \cup
    [at: {"prepare", "call", "result", "final", "retryable", "limited",
          "gap", "nil", "snooze", "error"},
     job: Job, attempt: Nat]

(* The rows, the jobs and the workers have their types. *)
TypeOK ==
    /\ run \in [Runs -> {"ABSENT"} \cup Active \cup Ended]
    /\ next \in [Runs -> 1..(Steps + 1)]
    /\ step \in [Job -> {None, "PENDING", "RUNNING", "SUCCEEDED", "FAILED"}]
    /\ attempts \in [Job -> Nat]
    /\ calls \in [Job -> SUBSET ToolCall]
    /\ gaps \subseteq Job
    /\ job \in [Job -> JobRow(MaxAttempts)]
    /\ worker \in [Workers -> Worker]
    /\ outlives \in Zombies
    /\ faults \in 0..MaxFaults

(* Whatever was retried, rescued or outlived, the calls a run rests on are *)
(* made in order and once: one successful call for each step it is past,   *)
(* none for the step it is at, and no call at all for a later step         *)
(* (the no-ops of prepare and persistSuccess).                             *)
OneSuccessPerStep ==
    \A j \in Job :
        LET good == {c \in calls[j] : c.status = "SUCCEEDED"}
        IN /\ Cardinality(good) = IF j[2] < next[j[1]] THEN 1 ELSE 0
           /\ j[2] > next[j[1]] => calls[j] = {}

(* A run that waits for input says why: its step failed, has an open gap,  *)
(* and the last attempt at it is recorded as a failed call; while no       *)
(* worker outlives the rescue of its job.                                  *)
WaitingExplained ==
    ~outlives => \A r \in Runs :
        run[r] = "WAITING_FOR_INPUT" =>
            /\ step[<<r, next[r]>>] = "FAILED"
            /\ <<r, next[r]>> \in gaps
            /\ [attempt |-> attempts[<<r, next[r]>>], status |-> "FAILED"]
                 \in calls[<<r, next[r]>>]

(* An open gap is never left on a step that a run got past, nor on a run   *)
(* that still acts: persistGap pauses the run it explains, while no worker *)
(* outlives the rescue of its job.                                         *)
GapPausesRun ==
    ~outlives => \A j \in gaps : run[j[1]] = "WAITING_FOR_INPUT" /\ next[j[1]] = j[2]

(* River counts the attempts of a job, the run those of a step: a snooze   *)
(* gives only the former back.  It is the latter that end the snoozing, so *)
(* a step is attempted at most MaxAttempts + GiveUpAt - 1 times.           *)
AttemptsBounded == \A j \in Job : attempts[j] <= MaxAttempts + GiveUpAt - 1

(* A run that ended (prepare treats both statuses as final) never changes  *)
(* again, while no worker outlives the rescue of its job.  One that does   *)
(* may still pause a run that is past its last step (persistGap), but does *)
(* not make it act again, nor take back its steps.                         *)
EndedRunIsFinal ==
    [][\A r \in Runs :
         /\ ~outlives /\ run[r] \in Ended => run'[r] = run[r] /\ next'[r] = next[r]
         /\ next[r] > Steps => run'[r] \in Ended /\ next'[r] = next[r]]_vars

(* When the attempts of its job are spent, a run is not left active: the   *)
(* operator is told to start a new readiness run (resolutionFor), which    *)
(* the unique index refuses while this one is active.                      *)
NewRunPossible ==
    \A r \in Runs :
        run[r] \in Active => job[<<r, next[r]>>].state \in {"available", "running"}

(* Every run that is created ends, crashes and rescues included: it         *)
(* succeeded or waits for input.  Only faults that spent the attempts of    *)
(* its job leave it active, as NewRunPossible shows.                        *)
RunEnds ==
    \A r \in Runs : (run[r] \in Active) ~>
        \/ run[r] \in Ended
        \/ faults > 0 /\ job[<<r, next[r]>>].state = "discarded"

(* The rows of the run, its steps and its gaps agree, whichever statement   *)
(* failed between the call and the gap: typed, and a run waits exactly when *)
(* it has a gap that says why.                                              *)
RunConsistent == TypeOK /\ WaitingExplained /\ GapPausesRun
=============================================================================
