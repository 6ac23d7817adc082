------------------------- MODULE PhysicalEvaluation -------------------------
(***************************************************************************)
(* The physical evidence of candidate fields (internal/evidence,           *)
(* db/queries/evidence.sql): an evaluation pins the boundary that is       *)
(* current when it starts, and one job, with one attempt, samples the      *)
(* boundary, buys facts about the samples within a credit limit, and       *)
(* aggregates them over the field.  Process is no transaction: each        *)
(* statement commits by itself, and its answer may be lost.                *)
(*                                                                         *)
(* Left out: the adjacent evidence (wells, facilities), whose absence is   *)
(* recorded and never changes the status, and what is written besides the  *)
(* status by an evaluation that stops half-way.                            *)
(***************************************************************************)
EXTENDS River, FiniteSets

CONSTANTS
    Fields,
    Boundaries,
    SamplesOf,     \* how many interior samples each boundary yields
    MaxSamples,    \* bound on them: 5 in the code
    SpecCount,     \* physicalFieldSpecs, in order: 30 in the code
    Critical,      \* the critical ones
    Prices,        \* fetch_per_field, as the plan of the account may say
    Balances,      \* credits_remaining, as the account may say
    MaxCredits,    \* maxProjectedCredits: 200 in the code
    Replies,       \* what the service may say of a fact
    Evaluations,
    Workers,
    MaxFaults,     \* bound on crashes, timeouts, rescues of a live worker,
                   \* failed statements and lost answers
    None

Specs == 1..SpecCount

\* "bad" is a fact that is said to be ok, with a value of another type.
Reply == {"ok", "bad", "absent", "failed", "retryable"}

ASSUME SamplesAssumption ==
    /\ MaxSamples \in Nat
    /\ SpecCount \in Nat
    /\ SamplesOf \in [Boundaries -> 0..MaxSamples]
    /\ Critical \subseteq Specs
ASSUME CreditsAssumption ==
    MaxCredits \in Nat /\ Prices \subseteq Nat \ {0} /\ Balances \subseteq Nat
ASSUME RepliesAssumption == Replies \subseteq Reply /\ MaxFaults \in Nat
ASSUME NoneAssumption == None \notin Reply \cup [field : Fields, boundary : Boundaries]

MaxAttemptsOfOthers == 3
MaxAttempts == 1    \* InsertOpts

VARIABLES
    field,      \* candidate_fields: READY or not, and the current boundary
    request,    \* physical_evaluations: the field and boundary, or None
    status, samples,
    facts,      \* physical_sample_facts of each sample and spec, or None
    gaps,       \* physical_data_gaps: the specs that are not complete
    spent,      \* credits of the answers an evaluation got
    job, worker, faults

rows == <<request, status, samples, facts, gaps, spent>>
vars == <<field, rows, job, worker, faults>>

Active == {"QUEUED", "RUNNING"}
Ended == {"SUCCEEDED", "REVIEW_REQUIRED", "FAILED"}
NoFacts == [i \in 1..MaxSamples |-> [s \in Specs |-> None]]
Idle == [at |-> "idle", job |-> None, price |-> 0, spec |-> 1, left |-> 0]

Init ==
    /\ field \in [Fields -> [ready : BOOLEAN, boundary : Boundaries]]
    /\ request = [e \in Evaluations |-> None]
    /\ status = [e \in Evaluations |-> "QUEUED"]
    /\ samples = [e \in Evaluations |-> 0]
    /\ facts = [e \in Evaluations |-> NoFacts]
    /\ gaps = [e \in Evaluations |-> {}]
    /\ spent = [e \in Evaluations |-> 0]
    /\ job = [e \in Evaluations |-> NoJob]
    /\ worker = [w \in Workers |-> Idle]
    /\ faults = 0

-----------------------------------------------------------------------------
(* The field record changes while an evaluation is queued or under way. *)
EditField(f) ==
    /\ \E ready \in BOOLEAN, b \in Boundaries :
         field' = [field EXCEPT ![f] = [ready |-> ready, boundary |-> b]]
    /\ UNCHANGED <<rows, job, worker, faults>>

(* GetActivePhysicalEvaluation. *)
ActiveOn(f) == {e \in Evaluations : /\ request[e] # None
                                    /\ request[e].field = f
                                    /\ status[e] \in Active}

CreatePhysicalEvaluation(e, f) ==
    request' = [request EXCEPT ![e] = [field |-> f, boundary |-> field[f].boundary]]

(* Start, under the lock of the field: an active evaluation is returned    *)
(* as it is, otherwise a new one is queued with its job.                   *)
Start(e, f) ==
    /\ request[e] = None
    /\ field[f].ready
    /\ ActiveOn(f) = {}
    /\ CreatePhysicalEvaluation(e, f)
    /\ job' = [job EXCEPT ![e] = Queued]
    /\ UNCHANGED <<field, status, samples, facts, gaps, spent, worker, faults>>

Fetch(w, e) ==
    /\ worker[w] = Idle
    /\ job[e].state = "available"
    /\ job' = [job EXCEPT ![e] = Fetched(@)]
    /\ worker' = [worker EXCEPT ![w] = [Idle EXCEPT !.at = "begin", !.job = e]]
    /\ UNCHANGED <<field, rows, faults>>

-----------------------------------------------------------------------------
(* Process. *)
Become(w, at) == worker' = [worker EXCEPT ![w].at = at]

At(w, at, e) == worker[w].at = at /\ worker[w].job = e

FailPhysicalEvaluation(e, s) == status' = [status EXCEPT ![e] = s]
CompletePhysicalEvaluation(e, s) == status' = [status EXCEPT ![e] = s]

Fault == faults < MaxFaults /\ faults' = faults + 1

(* After an error Process ends and its worker calls RecordFailure, which   *)
(* needs the context as well: when JobTimeout cancelled it, or when the    *)
(* recording fails, the queue gets the error.                              *)
AfterError(w) == IF worker[w].at = "failed" THEN "error" ELSE "failed"

(* The statement that ends an evaluation has committed: the worker is      *)
(* done, unless it does not learn of it.                                   *)
Answer(w) ==
    \/ Become(w, "nil") /\ UNCHANGED faults
    \/ Fault /\ \E at \in {AfterError(w), "error"} : Become(w, at)

(* review and RecordFailure: FailPhysicalEvaluation looks at no status. *)
EndUnrecorded(w, e, s) == Become(w, "nil") /\ UNCHANGED <<status, faults>>
End(w, e, s) == FailPhysicalEvaluation(e, s) /\ Answer(w)

MarkPhysicalEvaluationRunning(e) == status' = [status EXCEPT ![e] = "RUNNING"]

Begin(w, e) ==
    /\ At(w, "begin", e)
    /\ \/ status[e] \in Ended /\ Become(w, "nil") /\ UNCHANGED <<status, faults>>
       \/ /\ status[e] \notin Ended
          /\ ~field[request[e].field].ready
          /\ End(w, e, "REVIEW_REQUIRED")
       \/ /\ status[e] \notin Ended
          /\ field[request[e].field].ready
          /\ MarkPhysicalEvaluationRunning(e)
          /\ Become(w, "guard")
          /\ UNCHANGED faults
    /\ UNCHANGED <<field, request, samples, facts, gaps, spent, job>>

(* The boundary that is sampled, and how many samples are drawn. *)
CurrentBoundary(e) == field[request[e].field].boundary
PinnedBoundary(e) == request[e].boundary

GeneratePhysicalSamplePoints(e) == SamplesOf[PinnedBoundary(e)]

DeletePhysicalEvaluationEvidence(e) == facts' = [facts EXCEPT ![e] = NoFacts]

(* The guard reads the catalog, the price and the balance; each call may   *)
(* fail or answer what cannot be used.  Samples of an earlier attempt are  *)
(* deleted and new ones are drawn.                                         *)
Payable(n, price, balance) ==
    /\ n > 0
    /\ n * SpecCount * price <= MaxCredits
    /\ MaxCredits <= balance

Guard(w, e) ==
    /\ At(w, "guard", e)
    /\ \/ End(w, e, "REVIEW_REQUIRED") /\ UNCHANGED <<samples, facts>>
       \/ Become(w, "failed") /\ UNCHANGED <<status, samples, facts, faults>>
       \/ \E price \in Prices, balance \in Balances :
            LET n == GeneratePhysicalSamplePoints(e)
            IN  /\ DeletePhysicalEvaluationEvidence(e)
                /\ IF Payable(n, price, balance)
                   THEN /\ samples' = [samples EXCEPT ![e] = n]
                        /\ worker' = [worker EXCEPT ![w].at = "fetch",
                                                    ![w].price = price]
                        /\ UNCHANGED <<status, faults>>
                   ELSE End(w, e, "REVIEW_REQUIRED") /\ UNCHANGED samples
    /\ UNCHANGED <<field, request, gaps, spent, job>>

(* Credits left for retries once every fact was asked for. *)
Projected(w, e) == samples[e] * SpecCount * worker[w].price

(* The batch is recorded with what it cost, its answers fact by fact. *)
CreateMireyeFetchBatch(e, cost) == spent' = [spent EXCEPT ![e] = @ + cost]
UpsertPhysicalSampleFact(e, i, s, reply) == [facts[e][i] EXCEPT ![s] = reply]

(* FetchBatch and persistBatch: an answer to every fact, or none. *)
FetchBatch(w, e) ==
    /\ At(w, "fetch", e)
    /\ \/ End(w, e, "REVIEW_REQUIRED") /\ UNCHANGED <<facts, spent>>
       \/ /\ \E reply \in [1..samples[e] -> [Specs -> Replies]] :
               facts' = [facts EXCEPT ![e] =
                 [i \in 1..MaxSamples |-> IF i <= samples[e] THEN reply[i] ELSE @[i]]]
          /\ CreateMireyeFetchBatch(e, Projected(w, e))
          /\ worker' = [worker EXCEPT ![w].at = "retry", ![w].spec = 1,
                                      ![w].left = MaxCredits - Projected(w, e)]
          /\ UNCHANGED <<status, faults>>
    /\ UNCHANGED <<field, request, samples, gaps, job>>

Retryable(e, s) == {i \in 1..samples[e] : facts[e][i][s] = "retryable"}

RetryCost(w, e) == Cardinality(Retryable(e, worker[w].spec)) * worker[w].price

(* What is left of the limit once a retry was answered. *)
LeftAsBefore(w, cost) == worker[w].left
Left(w, cost) == worker[w].left - cost

(* retryFailedFields asks once more for each spec with retryable failures, *)
(* if that is affordable; a retry that fails is skipped.                   *)
Retry(w, e) ==
    LET s == worker[w].spec
        cost == RetryCost(w, e)
    IN  /\ At(w, "retry", e)
        /\ s <= SpecCount
        /\ \/ /\ worker' = [worker EXCEPT ![w].spec = s + 1]
              /\ UNCHANGED <<facts, spent>>
           \/ /\ Retryable(e, s) # {}
              /\ cost <= worker[w].left
              /\ \E reply \in [Retryable(e, s) -> Replies] :
                   facts' = [facts EXCEPT ![e] = [i \in 1..MaxSamples |->
                     IF i \in Retryable(e, s)
                     THEN UpsertPhysicalSampleFact(e, i, s, reply[i]) ELSE @[i]]]
              /\ CreateMireyeFetchBatch(e, cost)
              /\ worker' = [worker EXCEPT ![w].spec = s + 1, ![w].left = Left(w, cost)]
        /\ UNCHANGED <<field, request, status, samples, gaps, job, faults>>

(* aggregateField: complete when every sample has a fact that is ok and    *)
(* whose value can be aggregated.                                          *)
Complete(e, s) == \A i \in 1..samples[e] : facts[e][i][s] = "ok"

UpsertPhysicalDataGap(e, specs) == gaps' = [gaps EXCEPT ![e] = @ \cup specs]

(* aggregate, and what Process concludes from it. *)
Finish(w, e) ==
    /\ At(w, "retry", e)
    /\ worker[w].spec > SpecCount
    /\ UpsertPhysicalDataGap(e, {s \in Specs : ~Complete(e, s)})
    /\ CompletePhysicalEvaluation(e,
         IF \A s \in Critical : Complete(e, s) THEN "SUCCEEDED" ELSE "REVIEW_REQUIRED")
    /\ Answer(w)
    /\ UNCHANGED <<field, request, samples, facts, spent, job>>

(* Work records the error of Process, also over an outcome whose answer    *)
(* was lost, and tells the queue that it is done.                          *)
RecordFailure(w, e) ==
    /\ At(w, "failed", e)
    /\ End(w, e, "FAILED")
    /\ UNCHANGED <<field, request, samples, facts, gaps, spent, job>>

Return(w) ==
    /\ worker[w].at \in {"nil", "error"}
    /\ job' = [job EXCEPT ![worker[w].job] = Settled(@, worker[w].at, MaxAttempts)]
    /\ worker' = [worker EXCEPT ![w] = Idle]
    /\ UNCHANGED <<field, rows, faults>>

-----------------------------------------------------------------------------
(* A statement fails before it commits. *)
StatementFails(w) ==
    /\ worker[w].at \notin {"idle", "nil", "error"}
    /\ Fault
    /\ Become(w, AfterError(w))
    /\ UNCHANGED <<field, rows, job>>

(* JobTimeout cancels the context that RecordFailure would need as well. *)
Timeout(w) ==
    /\ worker[w].at \notin {"idle", "nil", "error"}
    /\ Fault
    /\ Become(w, "error")
    /\ UNCHANGED <<field, rows, job>>

Crash(w) ==
    /\ worker[w] # Idle
    /\ Fault
    /\ worker' = [worker EXCEPT ![w] = Idle]
    /\ UNCHANGED <<field, rows, job>>

(* River's rescuer knows a stuck job by its age only: a suspended worker   *)
(* may outlive it.                                                         *)
Orphaned(e) == \A w \in Workers : worker[w].job # e

Rescue(e) ==
    /\ job[e].state = "running"
    /\ IF Orphaned(e) THEN UNCHANGED faults ELSE Fault
    /\ job' = [job EXCEPT ![e] = Retried(@, MaxAttempts)]
    /\ UNCHANGED <<field, rows, worker>>

Process(w, e) ==
    \/ Begin(w, e)
    \/ Guard(w, e)
    \/ FetchBatch(w, e)
    \/ Retry(w, e)
    \/ Finish(w, e)
    \/ RecordFailure(w, e)

Next ==
    \/ \E f \in Fields : EditField(f)
    \/ \E e \in Evaluations, f \in Fields : Start(e, f)
    \/ \E w \in Workers, e \in Evaluations : Fetch(w, e) \/ Process(w, e)
    \/ \E w \in Workers : \/ Return(w)
                          \/ StatementFails(w)
                          \/ Timeout(w)
                          \/ Crash(w)
    \/ \E e \in Evaluations : Rescue(e)

Spec == Init /\ [][Next]_vars

(* River keeps fetching and rescuing; JobTimeout and the timeout of each   *)
(* HTTP call end every attempt.                                            *)
Fairness ==
    /\ \A w \in Workers : WF_vars((\E e \in Evaluations : Process(w, e)) \/ Return(w))
    /\ \A e \in Evaluations : /\ WF_vars(\E w \in Workers : Fetch(w, e))
                              /\ WF_vars(Orphaned(e) /\ Rescue(e))
FairSpec == Spec /\ Fairness

-----------------------------------------------------------------------------
Worker == {Idle} \cup
    [at : {"begin", "guard", "fetch", "retry", "failed", "nil", "error"},
     job : Evaluations, price : {0} \cup Prices, spec : 1..(SpecCount + 1),
     left : 0..MaxCredits]

(* The rows, the jobs and the workers have their types. *)
TypeOK ==
    /\ field \in [Fields -> [ready : BOOLEAN, boundary : Boundaries]]
    /\ request \in [Evaluations -> {None} \cup [field : Fields, boundary : Boundaries]]
    /\ status \in [Evaluations -> Active \cup Ended]
    /\ samples \in [Evaluations -> 0..MaxSamples]
    /\ facts \in [Evaluations -> [1..MaxSamples -> [Specs -> Reply \cup {None}]]]
    /\ gaps \in [Evaluations -> SUBSET Specs]
    /\ spent \in [Evaluations -> Nat]
    /\ job \in [Evaluations -> JobRow(MaxAttempts)]
    /\ worker \in [Workers -> Worker]
    /\ faults \in 0..MaxFaults

(* An evaluation SUCCEEDED only when every sample of the boundary it was    *)
(* started for has an aggregated value of every critical fact, however the  *)
(* field moved and whatever was retried meanwhile; and what is missing of   *)
(* the other facts is a named gap (placement counts on both).               *)
SucceededIsComplete ==
    \A e \in Evaluations : status[e] = "SUCCEEDED" =>
        LET points == 1..SamplesOf[request[e].boundary]
            known(s) == \A i \in points : facts[e][i][s] = "ok"
        IN  /\ points # {}
            /\ \A s \in Critical : known(s)
            /\ \A s \in Specs : known(s) <=> s \notin gaps[e]

(* "The fixed 200-credit evaluation limit" (service.go:183): the answers to *)
(* the batch and to all of its retries together never cost more.            *)
CreditsWithinLimit == \A e \in Evaluations : spent[e] <= MaxCredits

(* Process guards nothing against a second worker; that its job has one     *)
(* attempt is what keeps the samples, facts and gaps of an evaluation that  *)
(* ended, which plans and packages refer to by its id.  Its status stays    *)
(* too, but for a worker that did not learn that it had ended it: that one  *)
(* records a failure over the outcome, SUCCEEDED or not.                    *)
EndedEvaluationIsFinal ==
    [][\A e \in Evaluations : status[e] \in Ended =>
         /\ samples'[e] = samples[e]
         /\ facts'[e] = facts[e]
         /\ gaps'[e] = gaps[e]
         /\ \/ status'[e] = status[e]
            \/ status'[e] = "FAILED" /\ \E w \in Workers : At(w, "failed", e)]_vars

(* Every evaluation that is started ends, whatever Mireye answers.  Only a  *)
(* fault can spend its one attempt and leave it RUNNING (Start then returns *)
(* it for good).                                                            *)
EvaluationEnds ==
    \A e \in Evaluations :
        request[e] # None ~> \/ status[e] \in Ended
                             \/ faults > 0 /\ job[e].state = "discarded"

(* The status of an evaluation agrees with its samples, facts and gaps      *)
(* (finish), and the rows have their types.                                 *)
EvaluationConsistent == TypeOK /\ SucceededIsComplete
=============================================================================
