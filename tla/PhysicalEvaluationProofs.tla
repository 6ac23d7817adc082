---------------------- MODULE PhysicalEvaluationProofs ----------------------
(***************************************************************************)
(* For any fields, samples, prices, limit and faults: an evaluation that   *)
(* SUCCEEDED is complete, costs no more than the limit, and keeps what it  *)
(* holds once it ended.                                                    *)
(*                                                                         *)
(* Process takes no lock and checks no status after its first statement.   *)
(* What protects its rows is the queue: a job has one attempt, so a row    *)
(* that was handed to a worker is never handed to another (Exclusive), and *)
(* what a worker holds back in memory, its price and the credits it has    *)
(* left, still agrees with the rows it wrote (WorkerFits).                 *)
(***************************************************************************)
EXTENDS PhysicalEvaluation, FiniteSetTheorems, TLAPS

Working == {"begin", "guard", "fetch", "retry", "failed"}

(* What SucceededIsComplete says of one evaluation. *)
CompleteFor(e) ==
    LET points == 1..SamplesOf[request[e].boundary]
        known(s) == \A i \in points : facts[e][i][s] = "ok"
    IN  /\ points # {}
        /\ \A s \in Critical : known(s)
        /\ \A s \in Specs : known(s) <=> s \notin gaps[e]

(* An evaluation nobody took up yet is untouched, and one that is under    *)
(* way has no gap.                                                         *)
EvaluationFits(e) ==
    /\ job[e].state = "available" => job[e].tries = 0
    /\ job[e].state = "running" => job[e].tries = 1
    /\ job[e].state = "none" <=> request[e] = None
    /\ job[e].state \in {"none", "available"} =>
           status[e] = "QUEUED" /\ gaps[e] = {} /\ spent[e] = 0
    /\ status[e] \in Active => gaps[e] = {}
    /\ spent[e] <= MaxCredits
    /\ status[e] = "SUCCEEDED" => CompleteFor(e)

(* What a worker believes of the evaluation it works on. *)
WorkerFits(w) ==
    worker[w].at # "idle" =>
        LET e == worker[w].job
        IN  /\ job[e].state \notin {"none", "available"}
            /\ worker[w].at \in Working \ {"failed"} => status[e] \in Active
            /\ worker[w].at \in {"begin", "guard", "fetch"} => spent[e] = 0
            /\ worker[w].at \in {"fetch", "retry"} =>
                   samples[e] = SamplesOf[request[e].boundary] /\ samples[e] > 0
            /\ worker[w].at = "fetch" => Projected(w, e) <= MaxCredits
            /\ worker[w].at = "retry" => spent[e] + worker[w].left <= MaxCredits

(* No evaluation has two workers. *)
Exclusive ==
    \A v, w \in Workers :
        /\ worker[v].at # "idle" /\ worker[w].at # "idle"
        /\ worker[v].job = worker[w].job
        => v = w

IInv ==
    /\ TypeOK
    /\ \A e \in Evaluations : EvaluationFits(e)
    /\ \A w \in Workers : WorkerFits(w)
    /\ Exclusive

LEMMA CompletenessOfEach ==
    SucceededIsComplete <=> \A e \in Evaluations : status[e] = "SUCCEEDED" => CompleteFor(e)
BY DEF SucceededIsComplete, CompleteFor

-----------------------------------------------------------------------------
(* A worker that is not idle is at work on an evaluation. *)
BusyWorker == [at : Working \cup {"nil", "error"}, job : Evaluations,
               price : {0} \cup Prices, spec : 1..(SpecCount + 1), left : 0..MaxCredits]

LEMMA BusyIsWorker == BusyWorker \subseteq Worker
BY DEF BusyWorker, Worker, Working

LEMMA WorkerType ==
    ASSUME TypeOK, NEW w \in Workers
    PROVE  /\ worker[w].at = "idle" <=> worker[w] = Idle
           /\ worker[w].at # "idle" =>
                /\ worker[w] \in Worker
                /\ worker[w] \in BusyWorker
                /\ worker[w].job \in Evaluations
                /\ worker[w].price \in {0} \cup Prices
                /\ worker[w].price \in Nat
                /\ worker[w].spec \in 1..(SpecCount + 1)
                /\ worker[w].left \in 0..MaxCredits
<1>1. worker[w] \in Worker BY DEF TypeOK
<1>2. Idle.at = "idle" BY DEF Idle
<1>3. CASE worker[w] = Idle BY <1>2, <1>3
<1>4. CASE worker[w] # Idle
  <2>1. worker[w] \in BusyWorker
    <3>1. Worker \subseteq {Idle} \cup BusyWorker BY DEF Worker, BusyWorker, Working
    <3> QED BY <1>1, <1>4, <3>1
  <2>2. worker[w].at # "idle" BY <2>1 DEF BusyWorker, Working
  <2>3. \A p \in {0} \cup Prices : p \in Nat BY CreditsAssumption
  <2>4. /\ worker[w].job \in Evaluations /\ worker[w].price \in {0} \cup Prices
        /\ worker[w].spec \in 1..(SpecCount + 1) /\ worker[w].left \in 0..MaxCredits
      BY <2>1 DEF BusyWorker
  <2> QED BY <1>1, <1>4, <2>1, <2>2, <2>3, <2>4
<1> QED BY <1>3, <1>4

(* A worker that moves to another point of Process stays typed. *)
LEMMA BecomeType ==
    ASSUME TypeOK, NEW w \in Workers, worker[w].at # "idle",
           NEW at \in Working \cup {"nil", "error"}, Become(w, at)
    PROVE  worker' \in [Workers -> Worker]
<1> DEFINE new == [worker[w] EXCEPT !.at = at]
<1>1. worker[w] \in BusyWorker BY WorkerType
<1>2. new \in BusyWorker BY <1>1 DEF BusyWorker
<1> HIDE DEF new
<1>3. new \in Worker BY <1>2, BusyIsWorker
<1>4. worker' = [worker EXCEPT ![w] = new] BY DEF Become, new
<1> QED BY <1>3, <1>4 DEF TypeOK

LEMMA FaultType == ASSUME TypeOK, Fault PROVE faults' \in 0..MaxFaults
BY RepliesAssumption DEF TypeOK, Fault

(* A worker whose statement committed is at an end of Process, whether it  *)
(* got the answer or not.                                                  *)
LEMMA AnswerMoves ==
    ASSUME TypeOK, NEW w \in Workers, worker[w].at # "idle", Answer(w)
    PROVE  /\ worker' \in [Workers -> Worker] /\ faults' \in 0..MaxFaults
           /\ worker'[w].at \in {"failed", "nil", "error"}
           /\ worker'[w].job = worker[w].job
           /\ \A v \in Workers \ {w} : worker'[v] = worker[v]
<1>1. PICK at \in {"failed", "nil", "error"} : Become(w, at)
    BY DEF Answer, AfterError
<1>2. faults' \in 0..MaxFaults
    BY FaultType DEF Answer, TypeOK
<1>3. worker' \in [Workers -> Worker] BY <1>1, BecomeType DEF Working
<1>4. worker'[w].at = at /\ worker'[w].job = worker[w].job
      /\ \A v \in Workers \ {w} : worker'[v] = worker[v]
    BY <1>1, WorkerType DEF TypeOK, Become, Worker, Idle
<1> QED BY <1>1, <1>2, <1>3, <1>4

(* With one attempt, an answer or a rescue settles a job for good. *)
LEMMA QueueRows ==
    ASSUME NEW b \in JobRow(MaxAttempts), NEW answer \in {"nil", "error"}
    PROVE  /\ Queued \in JobRow(MaxAttempts)
           /\ Queued.state = "available" /\ Queued.tries = 0
           /\ b.state = "available" /\ b.tries = 0 =>
                  /\ Fetched(b) \in JobRow(MaxAttempts)
                  /\ Fetched(b).state = "running" /\ Fetched(b).tries = 1
           /\ Retried(b, MaxAttempts) \in JobRow(MaxAttempts)
           /\ Settled(b, answer, MaxAttempts) \in JobRow(MaxAttempts)
<1> USE DEF JobRow, Queued, Fetched, Retried, Settled, MaxAttempts
<1>1. Retried(b, MaxAttempts) \in JobRow(MaxAttempts) OBVIOUS
<1>2. CASE b.state # "running" BY <1>1, <1>2
<1>3. CASE b.state = "running" /\ answer = "nil" BY <1>1, <1>3
<1>4. CASE b.state = "running" /\ answer = "error" BY <1>1, <1>4
<1> QED BY <1>2, <1>3, <1>4

LEMMA InitInv == Init => IInv
<1> SUFFICES ASSUME Init PROVE IInv OBVIOUS
<1>1. TypeOK
  <2>1. NoFacts \in [1..MaxSamples -> [Specs -> Reply \cup {None}]] BY DEF NoFacts
  <2>2. 0 \in 0..MaxSamples /\ 0 \in 0..MaxFaults
      BY SamplesAssumption, RepliesAssumption
  <2>3. NoJob \in JobRow(MaxAttempts) BY DEF NoJob, JobRow, MaxAttempts
  <2>4. Idle \in Worker BY DEF Worker
  <2> QED BY <2>1, <2>2, <2>3, <2>4 DEF Init, TypeOK, Active, Ended
<1>2. ASSUME NEW e \in Evaluations PROVE EvaluationFits(e)
    BY CreditsAssumption DEF Init, EvaluationFits, NoJob
<1>3. \A w \in Workers : worker[w].at = "idle" BY DEF Init, Idle
<1>4. Exclusive /\ \A w \in Workers : WorkerFits(w) BY <1>3 DEF Exclusive, WorkerFits
<1> QED BY <1>1, <1>2, <1>4 DEF IInv

-----------------------------------------------------------------------------
FactTable == [Evaluations -> [1..MaxSamples -> [Specs -> Reply \cup {None}]]]

(* The evidence an evaluation holds stays typed when it is replaced. *)
LEMMA BatchType ==
    ASSUME TypeOK, NEW e \in Evaluations,
           NEW reply \in [1..samples[e] -> [Specs -> Replies]],
           facts' = [facts EXCEPT ![e] =
             [i \in 1..MaxSamples |-> IF i <= samples[e] THEN reply[i] ELSE @[i]]]
    PROVE  facts' \in FactTable
<1> DEFINE new == [i \in 1..MaxSamples |->
                     IF i <= samples[e] THEN reply[i] ELSE facts[e][i]]
<1>1. facts[e] \in [1..MaxSamples -> [Specs -> Reply \cup {None}]] BY DEF TypeOK
<1>2. ASSUME NEW i \in 1..MaxSamples PROVE new[i] \in [Specs -> Reply \cup {None}]
  <2>1. CASE i <= samples[e]
    <3>1. i \in 1..samples[e] BY <2>1 DEF TypeOK
    <3> QED BY <2>1, <3>1, RepliesAssumption
  <2>2. CASE ~(i <= samples[e]) BY <1>1, <2>2
  <2> QED BY <2>1, <2>2
<1>3. new \in [1..MaxSamples -> [Specs -> Reply \cup {None}]] BY <1>2
<1> QED BY <1>3 DEF TypeOK, FactTable

LEMMA RetryType ==
    ASSUME TypeOK, NEW e \in Evaluations, NEW s \in Specs,
           NEW reply \in [Retryable(e, s) -> Replies],
           facts' = [facts EXCEPT ![e] = [i \in 1..MaxSamples |->
             IF i \in Retryable(e, s)
             THEN UpsertPhysicalSampleFact(e, i, s, reply[i]) ELSE @[i]]]
    PROVE  facts' \in FactTable
<1> DEFINE new == [i \in 1..MaxSamples |->
                     IF i \in Retryable(e, s)
                     THEN UpsertPhysicalSampleFact(e, i, s, reply[i]) ELSE facts[e][i]]
<1>1. facts[e] \in [1..MaxSamples -> [Specs -> Reply \cup {None}]] BY DEF TypeOK
<1>2. ASSUME NEW i \in 1..MaxSamples PROVE new[i] \in [Specs -> Reply \cup {None}]
    BY <1>1, RepliesAssumption DEF UpsertPhysicalSampleFact
<1>3. new \in [1..MaxSamples -> [Specs -> Reply \cup {None}]] BY <1>2
<1> QED BY <1>3 DEF TypeOK, FactTable

(* What a retry costs, and what the batch does, are credits. *)
LEMMA CostType ==
    ASSUME TypeOK, NEW w \in Workers, NEW e \in Evaluations, worker[w].at # "idle"
    PROVE  RetryCost(w, e) \in Nat /\ Projected(w, e) \in Nat
<1>1. worker[w].price \in Nat BY WorkerType
<1>2. samples[e] \in Nat /\ SpecCount \in Nat BY SamplesAssumption DEF TypeOK
<1>3. IsFiniteSet(1..samples[e])
  <2>1. 1 \in Int /\ samples[e] \in Int BY <1>2
  <2> QED BY <2>1, FS_Interval, Zenon
<1>4. Retryable(e, worker[w].spec) \in SUBSET (1..samples[e]) BY DEF Retryable
<1>5. IsFiniteSet(Retryable(e, worker[w].spec)) BY <1>3, <1>4, FS_Subset
<1>6. Cardinality(Retryable(e, worker[w].spec)) \in Nat BY <1>5, FS_CardinalityType
<1>7. \A m, n \in Nat : m * n \in Nat OBVIOUS
<1> QED BY <1>1, <1>2, <1>6, <1>7 DEF RetryCost, Projected

LEMMA ProcessType ==
    ASSUME IInv, NEW w \in Workers, NEW e \in Evaluations, Process(w, e)
    PROVE  TypeOK' /\ worker[w].at \in Working /\ worker[w].job = e
<1>0. TypeOK BY DEF IInv
<1> USE <1>0
<1>1. worker[w].at \in Working /\ worker[w].at # "idle" /\ worker[w].job = e
    BY DEF Process, Begin, Guard, FetchBatch, Retry, Finish, RecordFailure, At, Working
<1> SUFFICES TypeOK' BY <1>1
<1>2. UNCHANGED <<field, request, job>>
    BY DEF Process, Begin, Guard, FetchBatch, Retry, Finish, RecordFailure
<1>3. ASSUME status' \in [Evaluations -> Active \cup Ended],
             samples' \in [Evaluations -> 0..MaxSamples],
             facts' \in FactTable,
             gaps' \in [Evaluations -> SUBSET Specs],
             spent' \in [Evaluations -> Nat],
             worker' \in [Workers -> Worker],
             faults' \in 0..MaxFaults
      PROVE  TypeOK'
    BY <1>2, <1>3 DEF TypeOK, FactTable
<1>t. /\ status \in [Evaluations -> Active \cup Ended]
      /\ samples \in [Evaluations -> 0..MaxSamples]
      /\ facts \in FactTable
      /\ gaps \in [Evaluations -> SUBSET Specs]
      /\ spent \in [Evaluations -> Nat]
      /\ worker \in [Workers -> Worker]
      /\ faults \in 0..MaxFaults
    BY DEF TypeOK, FactTable
<1>4. ASSUME NEW s \in Ended, End(w, e, s)
      PROVE  status' \in [Evaluations -> Active \cup Ended]
             /\ worker' \in [Workers -> Worker] /\ faults' \in 0..MaxFaults
    BY <1>1, <1>4, AnswerMoves DEF End, FailPhysicalEvaluation, TypeOK
<1>5. ASSUME NEW at \in Working \cup {"nil", "error"}, Become(w, at)
      PROVE  worker' \in [Workers -> Worker]
    BY <1>1, <1>5, BecomeType
<1>6. CASE Begin(w, e)
  <2>1. UNCHANGED <<samples, facts, gaps, spent>> BY <1>6 DEF Begin
  <2>2. status' \in [Evaluations -> Active \cup Ended]
        /\ worker' \in [Workers -> Worker] /\ faults' \in 0..MaxFaults
      BY <1>4, <1>5, <1>6
         DEF Begin, MarkPhysicalEvaluationRunning, TypeOK, Active, Ended, Working
  <2> QED BY <1>3, <1>t, <2>1, <2>2
<1>7. CASE Guard(w, e)
  <2>1. UNCHANGED <<gaps, spent>> BY <1>7 DEF Guard
  <2>2. CASE End(w, e, "REVIEW_REQUIRED") /\ UNCHANGED <<samples, facts>>
      BY <1>3, <1>4, <1>t, <2>1, <2>2 DEF Ended
  <2>3. CASE Become(w, "failed") /\ UNCHANGED <<status, samples, facts, faults>>
      BY <1>3, <1>5, <1>t, <2>1, <2>3 DEF Working
  <2>4. ASSUME NEW price \in Prices, NEW balance \in Balances,
               LET n == GeneratePhysicalSamplePoints(e)
               IN  /\ DeletePhysicalEvaluationEvidence(e)
                   /\ IF Payable(n, price, balance)
                      THEN /\ samples' = [samples EXCEPT ![e] = n]
                           /\ worker' = [worker EXCEPT ![w].at = "fetch",
                                                       ![w].price = price]
                           /\ UNCHANGED <<status, faults>>
                      ELSE End(w, e, "REVIEW_REQUIRED") /\ UNCHANGED samples
        PROVE  TypeOK'
    <3>1. facts' \in FactTable
        BY <2>4 DEF DeletePhysicalEvaluationEvidence, NoFacts, TypeOK, FactTable
    <3>2. CASE UNCHANGED samples /\ End(w, e, "REVIEW_REQUIRED")
        BY <1>3, <1>4, <1>t, <2>1, <3>1, <3>2 DEF Ended
    <3>3. CASE /\ Payable(GeneratePhysicalSamplePoints(e), price, balance)
               /\ samples' = [samples EXCEPT ![e] = GeneratePhysicalSamplePoints(e)]
               /\ worker' = [worker EXCEPT ![w].at = "fetch", ![w].price = price]
               /\ UNCHANGED <<status, faults>>
      <4>1. request[e] # None
          BY <1>1 DEF IInv, EvaluationFits, WorkerFits
      <4>2. GeneratePhysicalSamplePoints(e) \in 0..MaxSamples
          BY <4>1, SamplesAssumption
             DEF GeneratePhysicalSamplePoints, PinnedBoundary, TypeOK
      <4>3. worker' \in [Workers -> Worker]
        <5> DEFINE new == [worker[w] EXCEPT !.at = "fetch", !.price = price]
        <5>1. new \in BusyWorker BY <1>1, WorkerType DEF BusyWorker, Working
        <5>2. worker' = [worker EXCEPT ![w] = new] BY <3>3
        <5> HIDE DEF new
        <5> QED BY <1>t, <5>1, <5>2, BusyIsWorker
      <4> QED BY <1>3, <1>t, <2>1, <3>1, <3>3, <4>2, <4>3
    <3> QED BY <2>4, <3>2, <3>3
  <2> QED BY <1>7, <2>2, <2>3, <2>4, Zenon DEF Guard
<1>8. CASE FetchBatch(w, e)
  <2>1. UNCHANGED <<samples, gaps>> BY <1>8 DEF FetchBatch
  <2>2. CASE End(w, e, "REVIEW_REQUIRED") /\ UNCHANGED <<facts, spent>>
      BY <1>3, <1>4, <1>t, <2>1, <2>2 DEF Ended
  <2>3. ASSUME NEW reply \in [1..samples[e] -> [Specs -> Replies]],
               facts' = [facts EXCEPT ![e] =
                 [i \in 1..MaxSamples |-> IF i <= samples[e] THEN reply[i] ELSE @[i]]],
               CreateMireyeFetchBatch(e, Projected(w, e)),
               worker' = [worker EXCEPT ![w].at = "retry", ![w].spec = 1,
                                        ![w].left = MaxCredits - Projected(w, e)],
               UNCHANGED <<status, faults>>
        PROVE  TypeOK'
    <3>1. facts' \in FactTable
        BY <2>3, BatchType
    <3>2. Projected(w, e) \in Nat /\ Projected(w, e) <= MaxCredits
        BY <1>1, <1>8, CostType DEF IInv, WorkerFits, FetchBatch, At
    <3>3. MaxCredits - Projected(w, e) \in 0..MaxCredits /\ 1 \in 1..(SpecCount + 1)
        BY <3>2, CreditsAssumption, SamplesAssumption
    <3>4. worker' \in [Workers -> Worker]
      <4> DEFINE new == [worker[w] EXCEPT !.at = "retry", !.spec = 1,
                                          !.left = MaxCredits - Projected(w, e)]
      <4>1. new \in Worker BY <1>1, <3>3, WorkerType DEF Worker
      <4>2. worker' = [worker EXCEPT ![w] = new] BY <2>3
      <4> QED BY <1>t, <4>1, <4>2
    <3>5. spent' \in [Evaluations -> Nat]
        BY <2>3, <3>2 DEF CreateMireyeFetchBatch, TypeOK
    <3> QED BY <1>3, <1>t, <2>1, <2>3, <3>1, <3>4, <3>5
  <2> QED BY <1>8, <2>2, <2>3, Zenon DEF FetchBatch
<1>9. CASE Retry(w, e)
  <2> DEFINE s == worker[w].spec
             cost == RetryCost(w, e)
  <2>1. UNCHANGED <<status, samples, gaps, faults>> BY <1>9 DEF Retry
  <2>2. s \in Specs /\ s + 1 \in 1..(SpecCount + 1)
      BY <1>1, <1>9, WorkerType, SamplesAssumption DEF Retry, Specs
  <2>3. cost \in Nat BY <1>1, CostType
  <2>4. CASE worker' = [worker EXCEPT ![w].spec = s + 1] /\ UNCHANGED <<facts, spent>>
    <3>1. worker' \in [Workers -> Worker]
      <4> DEFINE new == [worker[w] EXCEPT !.spec = s + 1]
      <4>1. new \in BusyWorker BY <1>1, <2>2, WorkerType DEF BusyWorker
      <4>2. worker' = [worker EXCEPT ![w] = new] BY <2>4
      <4> HIDE DEF new
      <4> QED BY <1>t, <4>1, <4>2, BusyIsWorker
    <3> QED BY <1>3, <1>t, <2>1, <2>4, <3>1
  <2>5. ASSUME cost <= worker[w].left,
               NEW reply \in [Retryable(e, s) -> Replies],
               facts' = [facts EXCEPT ![e] = [i \in 1..MaxSamples |->
                 IF i \in Retryable(e, s)
                 THEN UpsertPhysicalSampleFact(e, i, s, reply[i]) ELSE @[i]]],
               CreateMireyeFetchBatch(e, cost),
               worker' = [worker EXCEPT ![w].spec = s + 1, ![w].left = Left(w, cost)]
        PROVE  TypeOK'
    <3>1. facts' \in FactTable
        BY <2>2, <2>5, RetryType
    <3>2. Left(w, cost) \in 0..MaxCredits
        BY <1>1, <2>3, <2>5, WorkerType, CreditsAssumption DEF Left
    <3>3. worker' \in [Workers -> Worker]
      <4> DEFINE new == [worker[w] EXCEPT !.spec = s + 1, !.left = Left(w, cost)]
      <4>1. new \in Worker BY <1>1, <2>2, <3>2, WorkerType DEF Worker
      <4>2. worker' = [worker EXCEPT ![w] = new] BY <2>5
      <4> QED BY <1>t, <4>1, <4>2
    <3>4. spent' \in [Evaluations -> Nat]
        BY <2>3, <2>5 DEF CreateMireyeFetchBatch, TypeOK
    <3> QED BY <1>3, <1>t, <2>1, <3>1, <3>3, <3>4
  <2> QED BY <1>9, <2>4, <2>5, Zenon DEF Retry
<1>10. CASE Finish(w, e)
  <2>1. UNCHANGED <<samples, facts, spent>> BY <1>10 DEF Finish
  <2>2. status' \in [Evaluations -> Active \cup Ended]
      BY <1>10 DEF Finish, CompletePhysicalEvaluation, TypeOK, Ended
  <2>3. gaps' \in [Evaluations -> SUBSET Specs]
      BY <1>10 DEF Finish, UpsertPhysicalDataGap, TypeOK
  <2>4. worker' \in [Workers -> Worker] /\ faults' \in 0..MaxFaults
      BY <1>1, <1>10, AnswerMoves DEF Finish
  <2> QED BY <1>3, <1>t, <2>1, <2>2, <2>3, <2>4
<1>11. CASE RecordFailure(w, e)
    BY <1>3, <1>4, <1>t, <1>11 DEF RecordFailure, Ended
<1> QED BY <1>6, <1>7, <1>8, <1>9, <1>10, <1>11 DEF Process

-----------------------------------------------------------------------------
(* A worker touches only its own evaluation, which no other worker has, so *)
(* only these two have to be looked at.                                    *)
LEMMA OwnStep ==
    ASSUME IInv, NEW w \in Workers, NEW e \in Evaluations,
           worker[w].at # "idle", worker[w].job = e,
           TypeOK', UNCHANGED <<request, job>>,
           \A d \in Evaluations \ {e} :
               /\ status'[d] = status[d] /\ samples'[d] = samples[d]
               /\ facts'[d] = facts[d] /\ gaps'[d] = gaps[d] /\ spent'[d] = spent[d],
           \A v \in Workers \ {w} : worker'[v] = worker[v],
           worker'[w].job = e,
           EvaluationFits(e)', WorkerFits(w)'
    PROVE  IInv'
<1>1. \A d \in Evaluations : EvaluationFits(d)'
    BY DEF IInv, EvaluationFits, CompleteFor
<1>2. ASSUME NEW v \in Workers PROVE WorkerFits(v)'
  <2>1. CASE v = w BY <2>1
  <2>2. CASE v # w /\ worker[v].at # "idle"
    <3>1. worker[v].job \in Evaluations \ {e}
        BY <2>2, WorkerType DEF IInv, Exclusive
    <3>2. WorkerFits(v) BY DEF IInv
    <3> QED BY <2>2, <3>1, <3>2 DEF WorkerFits, Projected
  <2>3. CASE v # w /\ worker[v].at = "idle" BY <2>3 DEF WorkerFits
  <2> QED BY <2>1, <2>2, <2>3
<1>3. Exclusive'
  <2>1. \A v \in Workers : /\ worker'[v].at # "idle" => worker[v].at # "idle"
                           /\ worker[v].at # "idle" => worker'[v].job = worker[v].job
      OBVIOUS
  <2> QED BY <2>1 DEF IInv, Exclusive
<1> QED BY <1>1, <1>2, <1>3 DEF IInv

(* A worker that ends an evaluation in a state that claims nothing. *)
LEMMA EndStep ==
    ASSUME IInv, NEW w \in Workers, NEW e \in Evaluations,
           worker[w].at \in Working, worker[w].job = e,
           NEW s \in {"REVIEW_REQUIRED", "FAILED"}, End(w, e, s), TypeOK',
           UNCHANGED <<request, gaps, spent, job>>,
           \A d \in Evaluations \ {e} : samples'[d] = samples[d] /\ facts'[d] = facts[d]
    PROVE  IInv'
<1>1. worker[w].at # "idle" /\ worker[w] \in Worker /\ e \in Evaluations
    BY WorkerType DEF IInv, Working
<1>2. status' = [status EXCEPT ![e] = s] /\ Answer(w)
    BY DEF End, FailPhysicalEvaluation
<1>3. /\ status'[e] = s /\ \A d \in Evaluations \ {e} : status'[d] = status[d]
      /\ worker'[w].at \in {"failed", "nil", "error"} /\ worker'[w].job = e
      /\ \A v \in Workers \ {w} : worker'[v] = worker[v]
    BY <1>1, <1>2, AnswerMoves DEF IInv, TypeOK
<1>4. job[e].state \notin {"none", "available"}
    BY <1>1 DEF IInv, WorkerFits
<1>5. EvaluationFits(e)'
    BY <1>3, <1>4 DEF IInv, EvaluationFits, Active
<1>6. WorkerFits(w)' BY <1>3, <1>4 DEF WorkerFits, Working
<1> QED BY <1>1, <1>3, <1>5, <1>6, OwnStep

(* A step that only moves a worker to a point where it claims less. *)
LEMMA PointStep ==
    ASSUME IInv, NEW w \in Workers, worker[w].at # "idle",
           NEW at \in {"failed", "nil", "error"}, Become(w, at),
           at = "failed" => worker[w].at \in Working,
           TypeOK', UNCHANGED rows, UNCHANGED job
    PROVE  IInv'
<1>1. PICK e \in Evaluations : worker[w].job = e BY WorkerType DEF IInv
<1>2. /\ worker'[w].at = at /\ worker'[w].job = e
      /\ \A v \in Workers \ {w} : worker'[v] = worker[v]
    BY <1>1, WorkerType DEF IInv, TypeOK, Become, Worker, Idle
<1>3. UNCHANGED <<request, status, samples, facts, gaps, spent, job>> BY DEF rows
<1>4. WorkerFits(w)' BY <1>1, <1>2, <1>3 DEF IInv, WorkerFits, Working
<1>5. EvaluationFits(e)' BY <1>1, <1>3 DEF IInv, EvaluationFits, CompleteFor
<1> QED BY <1>1, <1>2, <1>3, <1>4, <1>5, OwnStep

-----------------------------------------------------------------------------
LEMMA BeginStep ==
    ASSUME IInv, NEW w \in Workers, NEW e \in Evaluations, Begin(w, e), TypeOK'
    PROVE  IInv'
<1>1. worker[w].at = "begin" /\ worker[w].job = e BY DEF Begin, At
<1>2. UNCHANGED <<request, samples, facts, gaps, spent, job>> BY DEF Begin
<1>3. CASE Become(w, "nil") /\ UNCHANGED <<status, faults>>
    BY <1>1, <1>2, <1>3, PointStep DEF rows
<1>4. CASE End(w, e, "REVIEW_REQUIRED")
    BY <1>1, <1>2, <1>4, EndStep DEF Working
<1>5. CASE MarkPhysicalEvaluationRunning(e) /\ Become(w, "guard")
  <2>1. /\ status'[e] = "RUNNING"
        /\ \A d \in Evaluations \ {e} : status'[d] = status[d]
      BY <1>5 DEF MarkPhysicalEvaluationRunning, IInv, TypeOK
  <2>2. /\ worker'[w].at = "guard" /\ worker'[w].job = e
        /\ \A v \in Workers \ {w} : worker'[v] = worker[v]
      BY <1>1, <1>5, WorkerType DEF Become, IInv, TypeOK, Worker, Idle
  <2>3. WorkerFits(w)' /\ EvaluationFits(e)'
      BY <1>1, <1>2, <2>1, <2>2 DEF IInv, WorkerFits, EvaluationFits, Working, Active
  <2> QED BY <1>1, <1>2, <2>1, <2>2, <2>3, OwnStep
<1> QED BY <1>3, <1>4, <1>5 DEF Begin

LEMMA GuardStep ==
    ASSUME IInv, NEW w \in Workers, NEW e \in Evaluations, Guard(w, e), TypeOK'
    PROVE  IInv'
<1>1. worker[w].at = "guard" /\ worker[w].job = e BY DEF Guard, At
<1>2. UNCHANGED <<request, gaps, spent, job>> BY DEF Guard
<1>3. CASE End(w, e, "REVIEW_REQUIRED") /\ UNCHANGED <<samples, facts>>
    BY <1>1, <1>2, <1>3, EndStep DEF Working
<1>4. CASE Become(w, "failed") /\ UNCHANGED <<status, samples, facts, faults>>
    BY <1>1, <1>2, <1>4, PointStep DEF rows, Working
<1>5. ASSUME NEW price \in Prices, NEW balance \in Balances,
             DeletePhysicalEvaluationEvidence(e),
             IF Payable(GeneratePhysicalSamplePoints(e), price, balance)
             THEN /\ samples' = [samples EXCEPT ![e] = GeneratePhysicalSamplePoints(e)]
                  /\ worker' = [worker EXCEPT ![w].at = "fetch", ![w].price = price]
                  /\ UNCHANGED <<status, faults>>
             ELSE End(w, e, "REVIEW_REQUIRED") /\ UNCHANGED samples
      PROVE  IInv'
  <2> DEFINE n == GeneratePhysicalSamplePoints(e)
  <2>1. \A d \in Evaluations \ {e} : facts'[d] = facts[d]
      BY <1>5 DEF DeletePhysicalEvaluationEvidence, IInv, TypeOK
  <2>2. CASE End(w, e, "REVIEW_REQUIRED") /\ UNCHANGED samples
      BY <1>1, <1>2, <2>1, <2>2, EndStep DEF Working
  <2>3. CASE /\ Payable(n, price, balance)
             /\ samples' = [samples EXCEPT ![e] = n]
             /\ worker' = [worker EXCEPT ![w].at = "fetch", ![w].price = price]
             /\ UNCHANGED <<status, faults>>
    <3>1. n > 0 /\ n * SpecCount * price <= MaxCredits BY <2>3 DEF Payable
    <3>2. n = SamplesOf[request[e].boundary]
        BY DEF GeneratePhysicalSamplePoints, PinnedBoundary
    <3> HIDE DEF n
    <3>3. samples'[e] = n /\ \A d \in Evaluations \ {e} : samples'[d] = samples[d]
        BY <2>3 DEF IInv, TypeOK
    <3>4. /\ worker'[w].at = "fetch" /\ worker'[w].job = e /\ worker'[w].price = price
          /\ \A v \in Workers \ {w} : worker'[v] = worker[v]
        BY <1>1, <2>3, WorkerType DEF IInv, TypeOK, Worker, Idle
    <3>5. Projected(w, e)' <= MaxCredits BY <3>1, <3>3, <3>4 DEF Projected
    <3>6. WorkerFits(w)'
        BY <1>1, <1>2, <2>3, <3>1, <3>2, <3>3, <3>4, <3>5
           DEF IInv, WorkerFits, Working
    <3>7. EvaluationFits(e)'
        BY <1>1, <1>2, <2>3 DEF IInv, WorkerFits, EvaluationFits, Working, Active
    <3> QED BY <1>1, <1>2, <2>1, <2>3, <3>3, <3>4, <3>6, <3>7, OwnStep
  <2> QED BY <1>5, <2>2, <2>3
<1> QED BY <1>3, <1>4, <1>5, Zenon DEF Guard

LEMMA FetchBatchStep ==
    ASSUME IInv, NEW w \in Workers, NEW e \in Evaluations, FetchBatch(w, e), TypeOK'
    PROVE  IInv'
<1>1. worker[w].at = "fetch" /\ worker[w].job = e BY DEF FetchBatch, At
<1>2. UNCHANGED <<request, samples, gaps, job>> BY DEF FetchBatch
<1>3. CASE End(w, e, "REVIEW_REQUIRED") /\ UNCHANGED <<facts, spent>>
    BY <1>1, <1>2, <1>3, EndStep DEF Working
<1>4. ASSUME NEW reply \in [1..samples[e] -> [Specs -> Replies]],
             facts' = [facts EXCEPT ![e] =
               [i \in 1..MaxSamples |-> IF i <= samples[e] THEN reply[i] ELSE @[i]]],
             CreateMireyeFetchBatch(e, Projected(w, e)),
             worker' = [worker EXCEPT ![w].at = "retry", ![w].spec = 1,
                                      ![w].left = MaxCredits - Projected(w, e)],
             UNCHANGED <<status, faults>>
      PROVE  IInv'
  <2>1. \A d \in Evaluations \ {e} : facts'[d] = facts[d] /\ spent'[d] = spent[d]
      BY <1>4 DEF CreateMireyeFetchBatch, IInv, TypeOK
  <2>2. Projected(w, e) \in Nat /\ Projected(w, e) <= MaxCredits /\ spent[e] = 0
      BY <1>1, CostType DEF IInv, WorkerFits
  <2>3. spent'[e] = Projected(w, e)
      BY <1>4, <2>2 DEF CreateMireyeFetchBatch, IInv, TypeOK
  <2>4. /\ worker'[w].at = "retry" /\ worker'[w].job = e
        /\ worker'[w].left = MaxCredits - Projected(w, e)
        /\ \A v \in Workers \ {w} : worker'[v] = worker[v]
      BY <1>1, <1>4, WorkerType DEF IInv, TypeOK, Worker, Idle
  <2>5. WorkerFits(w)'
      BY <1>1, <1>2, <1>4, <2>2, <2>3, <2>4, CreditsAssumption
         DEF IInv, WorkerFits, Working
  <2>6. EvaluationFits(e)'
      BY <1>1, <1>2, <1>4, <2>2, <2>3 DEF IInv, WorkerFits, EvaluationFits, Working, Active
  <2> QED BY <1>1, <1>2, <1>4, <2>1, <2>4, <2>5, <2>6, OwnStep
<1> QED BY <1>3, <1>4, Zenon DEF FetchBatch

LEMMA RetryStep ==
    ASSUME IInv, NEW w \in Workers, NEW e \in Evaluations, Retry(w, e), TypeOK'
    PROVE  IInv'
<1> DEFINE s == worker[w].spec
           cost == RetryCost(w, e)
<1>1. worker[w].at = "retry" /\ worker[w].job = e BY DEF Retry, At
<1>2. UNCHANGED <<request, status, samples, gaps, job>> BY DEF Retry
<1>3. status[e] \in Active /\ job[e].state \notin {"none", "available"}
      /\ spent[e] + worker[w].left <= MaxCredits
    BY <1>1 DEF IInv, WorkerFits, Working
<1>4. CASE worker' = [worker EXCEPT ![w].spec = s + 1] /\ UNCHANGED <<facts, spent>>
  <2>1. /\ worker'[w].at = "retry" /\ worker'[w].job = e
        /\ worker'[w].left = worker[w].left
        /\ \A v \in Workers \ {w} : worker'[v] = worker[v]
      BY <1>1, <1>4, WorkerType DEF IInv, TypeOK, Worker, Idle
  <2>2. WorkerFits(w)' BY <1>1, <1>2, <1>4, <2>1 DEF IInv, WorkerFits, Working
  <2>3. EvaluationFits(e)' BY <1>2, <1>3, <1>4 DEF IInv, EvaluationFits, Active
  <2> QED BY <1>1, <1>2, <1>4, <2>1, <2>2, <2>3, OwnStep
<1>5. ASSUME cost <= worker[w].left,
             NEW reply \in [Retryable(e, s) -> Replies],
             facts' = [facts EXCEPT ![e] = [i \in 1..MaxSamples |->
               IF i \in Retryable(e, s)
               THEN UpsertPhysicalSampleFact(e, i, s, reply[i]) ELSE @[i]]],
             CreateMireyeFetchBatch(e, cost),
             worker' = [worker EXCEPT ![w].spec = s + 1, ![w].left = Left(w, cost)]
      PROVE  IInv'
  <2>1. \A d \in Evaluations \ {e} : facts'[d] = facts[d] /\ spent'[d] = spent[d]
      BY <1>5 DEF CreateMireyeFetchBatch, IInv, TypeOK
  <2>2. cost \in Nat BY <1>1, CostType DEF IInv
  <2> HIDE DEF cost
  <2>3. spent[e] \in Nat /\ spent'[e] = spent[e] + cost
      BY <1>5 DEF CreateMireyeFetchBatch, IInv, TypeOK
  <2>4. /\ worker'[w].at = "retry" /\ worker'[w].job = e
        /\ worker'[w].left = worker[w].left - cost
        /\ \A v \in Workers \ {w} : worker'[v] = worker[v]
      BY <1>1, <1>5, WorkerType DEF IInv, TypeOK, Worker, Idle, Left
  <2>5. worker[w].left \in Nat
      BY <1>1, WorkerType, CreditsAssumption DEF IInv
  <2>6. spent'[e] + worker'[w].left <= MaxCredits /\ spent'[e] <= MaxCredits
      BY <1>3, <1>5, <2>2, <2>3, <2>4, <2>5, CreditsAssumption
  <2>7. WorkerFits(w)' BY <1>1, <1>2, <2>4, <2>6 DEF IInv, WorkerFits, Working
  <2>8. EvaluationFits(e)' BY <1>2, <1>3, <2>6 DEF IInv, EvaluationFits, Active
  <2> QED BY <1>1, <1>2, <2>1, <2>4, <2>7, <2>8, OwnStep
<1> QED BY <1>4, <1>5, Zenon DEF Retry

(* Every sample was asked for, so what is not known is exactly what is     *)
(* named as a gap.                                                         *)
LEMMA FinishStep ==
    ASSUME IInv, NEW w \in Workers, NEW e \in Evaluations, Finish(w, e), TypeOK'
    PROVE  IInv'
<1>1. worker[w].at = "retry" /\ worker[w].job = e BY DEF Finish, At
<1>2. UNCHANGED <<request, samples, facts, spent, job>> BY DEF Finish
<1>3. /\ status[e] \in Active /\ job[e].state \notin {"none", "available"}
      /\ samples[e] = SamplesOf[request[e].boundary] /\ samples[e] > 0
      /\ gaps[e] = {}
    BY <1>1 DEF IInv, WorkerFits, EvaluationFits, Working
<1>4. /\ gaps'[e] = {s \in Specs : ~Complete(e, s)}
      /\ \A d \in Evaluations \ {e} : gaps'[d] = gaps[d]
    BY <1>3 DEF Finish, UpsertPhysicalDataGap, IInv, TypeOK
<1>5. /\ status'[e] = IF \A s \in Critical : Complete(e, s)
                      THEN "SUCCEEDED" ELSE "REVIEW_REQUIRED"
      /\ \A d \in Evaluations \ {e} : status'[d] = status[d]
    BY DEF Finish, CompletePhysicalEvaluation, IInv, TypeOK
<1>6. /\ worker'[w].at \in {"failed", "nil", "error"} /\ worker'[w].job = e
      /\ \A v \in Workers \ {w} : worker'[v] = worker[v]
    BY <1>1, AnswerMoves DEF Finish, IInv
<1>7. status'[e] = "SUCCEEDED" => CompleteFor(e)'
  <2> SUFFICES ASSUME \A s \in Critical : Complete(e, s) PROVE CompleteFor(e)'
      BY <1>5
  <2>1. samples[e] \in Nat /\ 1 \in 1..SamplesOf[request[e].boundary]
      BY <1>3 DEF IInv, TypeOK
  <2>2. \A s \in Specs :
          Complete(e, s) <=> \A i \in 1..SamplesOf[request[e].boundary] : facts[e][i][s] = "ok"
      BY <1>3 DEF Complete
  <2>3. \A s \in Critical : s \in Specs BY SamplesAssumption
  <2>4. \A s \in Specs : s \notin gaps'[e] <=> Complete(e, s) BY <1>4
  <2> QED BY <1>2, <2>1, <2>2, <2>3, <2>4 DEF CompleteFor
<1>8. EvaluationFits(e)'
    BY <1>2, <1>3, <1>5, <1>7 DEF IInv, EvaluationFits, Active
<1>9. WorkerFits(w)' BY <1>2, <1>3, <1>6 DEF WorkerFits, Working
<1> QED BY <1>1, <1>2, <1>4, <1>5, <1>6, <1>8, <1>9, OwnStep

LEMMA ProcessStep ==
    ASSUME IInv, NEW w \in Workers, NEW e \in Evaluations, Process(w, e)
    PROVE  IInv'
<1>1. TypeOK' /\ worker[w].at \in Working /\ worker[w].job = e BY ProcessType
<1>2. CASE RecordFailure(w, e)
    BY <1>1, <1>2, EndStep DEF RecordFailure
<1> QED
    BY <1>1, <1>2, BeginStep, GuardStep, FetchBatchStep, RetryStep, FinishStep
       DEF Process

-----------------------------------------------------------------------------
(* A new evaluation: no worker can have it yet. *)
LEMMA StartStep ==
    ASSUME IInv, NEW e \in Evaluations, NEW f \in Fields, Start(e, f)
    PROVE  IInv'
<1>0. TypeOK BY DEF IInv
<1>1. request[e] = None /\ job[e].state = "none"
      /\ status[e] = "QUEUED" /\ gaps[e] = {} /\ spent[e] = 0
    BY DEF Start, IInv, EvaluationFits
<1> DEFINE new == [field |-> f, boundary |-> field[f].boundary]
<1>2. new \in [field : Fields, boundary : Boundaries] BY <1>0 DEF TypeOK
<1>3. new # None BY <1>2, NoneAssumption
<1> HIDE DEF new
<1>4. request' = [request EXCEPT ![e] = new] /\ job' = [job EXCEPT ![e] = Queued]
      /\ UNCHANGED <<field, status, samples, facts, gaps, spent, worker, faults>>
    BY DEF Start, CreatePhysicalEvaluation, new
<1>5. Queued \in JobRow(MaxAttempts) /\ Queued.state = "available" /\ Queued.tries = 0
    BY DEF Queued, JobRow, MaxAttempts
<1>6. TypeOK' BY <1>0, <1>2, <1>4, <1>5 DEF TypeOK
<1>7. \A d \in Evaluations \ {e} : request'[d] = request[d] /\ job'[d] = job[d]
    BY <1>0, <1>4 DEF TypeOK
<1>8. request'[e] = new /\ job'[e] = Queued BY <1>0, <1>4 DEF TypeOK
<1>9. ASSUME NEW d \in Evaluations PROVE EvaluationFits(d)'
  <2>1. CASE d = e
      BY <1>1, <1>3, <1>4, <1>5, <1>8, <2>1, CreditsAssumption DEF EvaluationFits
  <2>2. CASE d # e BY <1>4, <1>7, <2>2 DEF IInv, EvaluationFits, CompleteFor
  <2> QED BY <2>1, <2>2
<1>10. ASSUME NEW w \in Workers, worker[w].at # "idle" PROVE WorkerFits(w)'
  <2>1. WorkerFits(w) BY DEF IInv
  <2>2. worker[w].job \in Evaluations \ {e}
      BY <1>0, <1>1, <1>10, <2>1, WorkerType DEF WorkerFits
  <2> QED BY <1>4, <1>7, <2>1, <2>2 DEF WorkerFits, Projected
<1>11. \A w \in Workers : WorkerFits(w)' BY <1>4, <1>10 DEF WorkerFits
<1>12. Exclusive' BY <1>4 DEF IInv, Exclusive
<1> QED BY <1>6, <1>9, <1>11, <1>12 DEF IInv

(* A job is handed out once: it was available, so nobody works on it. *)
LEMMA FetchStep ==
    ASSUME IInv, NEW w \in Workers, NEW e \in Evaluations, Fetch(w, e)
    PROVE  IInv'
<1>0. TypeOK BY DEF IInv
<1>1. /\ worker[w] = Idle /\ job[e].state = "available" /\ job[e].tries = 0
      /\ status[e] = "QUEUED" /\ gaps[e] = {} /\ spent[e] = 0 /\ request[e] # None
    BY DEF Fetch, IInv, EvaluationFits
<1>2. /\ Fetched(job[e]) \in JobRow(MaxAttempts)
      /\ Fetched(job[e]).state = "running" /\ Fetched(job[e]).tries = 1
    BY <1>0, <1>1, QueueRows DEF TypeOK
<1> DEFINE new == [Idle EXCEPT !.at = "begin", !.job = e]
<1>3. new \in Worker /\ new.at = "begin" /\ new.job = e
  <2>1. 1 \in 1..(SpecCount + 1) /\ 0 \in 0..MaxCredits
      BY SamplesAssumption, CreditsAssumption
  <2>2. Idle \in [at : {"idle"}, job : {None}, price : {0} \cup Prices,
                  spec : 1..(SpecCount + 1), left : 0..MaxCredits]
      BY <2>1 DEF Idle
  <2>3. new \in [at : {"begin"}, job : {e}, price : {0} \cup Prices,
                 spec : 1..(SpecCount + 1), left : 0..MaxCredits]
      BY <2>2
  <2> QED BY <2>3 DEF Worker
<1> HIDE DEF new
<1>4. /\ job' = [job EXCEPT ![e] = Fetched(job[e])]
      /\ worker' = [worker EXCEPT ![w] = new]
      /\ UNCHANGED <<field, request, status, samples, facts, gaps, spent, faults>>
    BY DEF Fetch, rows, new
<1>5. TypeOK' BY <1>0, <1>2, <1>3, <1>4 DEF TypeOK
<1>6. /\ job'[e] = Fetched(job[e]) /\ \A d \in Evaluations \ {e} : job'[d] = job[d]
      /\ worker'[w] = new /\ \A v \in Workers \ {w} : worker'[v] = worker[v]
    BY <1>0, <1>4 DEF TypeOK
<1>7. ASSUME NEW v \in Workers, worker[v].at # "idle"
      PROVE  worker[v].job \in Evaluations \ {e} /\ v # w
  <2>1. WorkerFits(v) BY DEF IInv
  <2> QED BY <1>0, <1>1, <1>7, <2>1, WorkerType DEF WorkerFits, Idle
<1>8. ASSUME NEW d \in Evaluations PROVE EvaluationFits(d)'
  <2>1. CASE d = e BY <1>1, <1>2, <1>4, <1>6, <2>1, CreditsAssumption DEF EvaluationFits
  <2>2. CASE d # e BY <1>4, <1>6, <2>2 DEF IInv, EvaluationFits, CompleteFor
  <2> QED BY <2>1, <2>2
<1>9. ASSUME NEW v \in Workers PROVE WorkerFits(v)'
  <2>1. CASE v = w
      BY <1>1, <1>2, <1>3, <1>4, <1>6, <2>1 DEF WorkerFits, Active
  <2>2. CASE v # w /\ worker[v].at # "idle"
    <3>1. WorkerFits(v) BY DEF IInv
    <3> QED BY <1>4, <1>6, <1>7, <2>2, <3>1 DEF WorkerFits, Projected
  <2>3. CASE v # w /\ worker[v].at = "idle" BY <1>6, <2>3 DEF WorkerFits
  <2> QED BY <2>1, <2>2, <2>3
<1>10. Exclusive' BY <1>3, <1>6, <1>7 DEF IInv, Exclusive
<1> QED BY <1>5, <1>8, <1>9, <1>10 DEF IInv

(* A worker that goes idle, by its answer or by a crash. *)
LEMMA IdleStep ==
    ASSUME IInv, NEW w \in Workers, worker' = [worker EXCEPT ![w] = Idle],
           UNCHANGED rows, TypeOK',
           \A e \in Evaluations :
               \/ job'[e] = job[e]
               \/ /\ job[e].state \notin {"none", "available"}
                  /\ job'[e].state \in {"completed", "discarded"}
    PROVE  IInv'
<1>1. UNCHANGED <<request, status, samples, facts, gaps, spent>> BY DEF rows
<1>2. /\ worker'[w].at = "idle" /\ \A v \in Workers \ {w} : worker'[v] = worker[v]
    BY DEF IInv, TypeOK, Idle
<1>3. \A e \in Evaluations : EvaluationFits(e)'
    BY <1>1 DEF IInv, EvaluationFits, CompleteFor
<1>4. ASSUME NEW v \in Workers PROVE WorkerFits(v)'
  <2>1. CASE worker'[v].at = "idle" BY <2>1 DEF WorkerFits
  <2>2. CASE worker'[v].at # "idle"
    <3>1. v # w /\ worker'[v] = worker[v] BY <1>2, <2>2
    <3>2. WorkerFits(v) /\ worker[v].job \in Evaluations
        BY <2>2, <3>1, WorkerType DEF IInv
    <3> QED BY <1>1, <2>2, <3>1, <3>2 DEF WorkerFits, Projected
  <2> QED BY <2>1, <2>2
<1>5. Exclusive' BY <1>2 DEF IInv, Exclusive
<1> QED BY <1>3, <1>4, <1>5 DEF IInv

LEMMA ReturnStep == ASSUME IInv, NEW w \in Workers, Return(w) PROVE IInv'
<1>0. TypeOK BY DEF IInv
<1>1. PICK e \in Evaluations : worker[w].job = e
    BY <1>0, WorkerType DEF Return
<1> DEFINE row == Settled(job[e], worker[w].at, MaxAttempts)
<1>2. row \in JobRow(MaxAttempts) BY <1>0, QueueRows DEF Return, TypeOK
<1>3. job[e].state \notin {"none", "available"}
    BY <1>1 DEF IInv, WorkerFits, Return
<1>4. row = job[e] \/ row.state \in {"completed", "discarded"}
  <2>1. job[e] \in JobRow(MaxAttempts) BY <1>0 DEF TypeOK
  <2>2. CASE job[e].state # "running" BY <2>2 DEF Settled
  <2>3. CASE job[e].state = "running"
    <3>1. job[e].tries = 1 BY <2>3 DEF IInv, EvaluationFits
    <3> QED BY <2>1, <2>3, <3>1 DEF Return, Settled, Retried, JobRow, MaxAttempts
  <2> QED BY <2>2, <2>3
<1> HIDE DEF row
<1>5. job' = [job EXCEPT ![e] = row] BY <1>1 DEF Return, row
<1>6. TypeOK'
  <2>1. Idle \in Worker BY DEF Worker
  <2>2. /\ worker' = [worker EXCEPT ![w] = Idle]
        /\ UNCHANGED <<field, request, status, samples, facts, gaps, spent, faults>>
      BY DEF Return, rows
  <2> QED BY <1>0, <1>2, <1>5, <2>1, <2>2 DEF TypeOK
<1>7. \A d \in Evaluations : job'[d] = IF d = e THEN row ELSE job[d]
    BY <1>0, <1>5 DEF TypeOK
<1> QED BY <1>3, <1>4, <1>6, <1>7, IdleStep DEF Return

LEMMA CrashStep == ASSUME IInv, NEW w \in Workers, Crash(w) PROVE IInv'
<1>1. Idle \in Worker BY DEF Worker
<1>2. /\ worker' = [worker EXCEPT ![w] = Idle] /\ UNCHANGED rows
      /\ UNCHANGED <<field, request, status, samples, facts, gaps, spent, job>>
    BY DEF Crash, rows
<1>3. faults' \in 0..MaxFaults BY FaultType DEF Crash, IInv
<1>4. TypeOK' BY <1>1, <1>2, <1>3 DEF IInv, TypeOK
<1> QED BY <1>2, <1>4, IdleStep

LEMMA FaultStep ==
    ASSUME IInv, NEW w \in Workers, StatementFails(w) \/ Timeout(w)
    PROVE  IInv'
<1>0. TypeOK BY DEF IInv
<1>1. worker[w].at \in Working
  <2>1. worker[w].at # "idle" /\ worker[w].at \notin {"nil", "error"}
      BY DEF StatementFails, Timeout
  <2>2. worker[w] \in Worker BY <1>0, <2>1, WorkerType
  <2> QED BY <2>1, <2>2 DEF Worker, Working, Idle
<1>2. /\ UNCHANGED <<field, request, status, samples, facts, gaps, spent, job>>
      /\ UNCHANGED rows
    BY DEF StatementFails, Timeout, rows
<1>3. PICK at \in {"failed", "error"} : Become(w, at)
    BY DEF StatementFails, Timeout, AfterError
<1>4. faults' \in 0..MaxFaults BY <1>0, FaultType DEF StatementFails, Timeout
<1>5. worker' \in [Workers -> Worker]
    BY <1>0, <1>1, <1>3, BecomeType DEF Working
<1>6. TypeOK' BY <1>0, <1>2, <1>4, <1>5 DEF TypeOK
<1> QED BY <1>1, <1>2, <1>3, <1>6, PointStep DEF Working

(* The one attempt is spent: a rescue discards the job, also under a       *)
(* worker that still runs.                                                 *)
LEMMA RescueStep == ASSUME IInv, NEW e \in Evaluations, Rescue(e) PROVE IInv'
<1>0. TypeOK BY DEF IInv
<1> DEFINE row == Retried(job[e], MaxAttempts)
<1>1. job[e].state = "running" /\ job[e].tries = 1 /\ job[e] \in JobRow(MaxAttempts)
    BY <1>0 DEF Rescue, IInv, EvaluationFits, TypeOK
<1>2. row \in JobRow(MaxAttempts) /\ row.state = "discarded"
    BY <1>1 DEF Retried, JobRow, MaxAttempts
<1> HIDE DEF row
<1>3. /\ job' = [job EXCEPT ![e] = row]
      /\ UNCHANGED <<field, request, status, samples, facts, gaps, spent, worker>>
    BY DEF Rescue, rows, row
<1>4. faults' \in 0..MaxFaults BY <1>0, FaultType DEF Rescue, TypeOK
<1>5. TypeOK' BY <1>0, <1>2, <1>3, <1>4 DEF TypeOK
<1>6. \A d \in Evaluations : job'[d] = IF d = e THEN row ELSE job[d]
    BY <1>0, <1>3 DEF TypeOK
<1>7. \A d \in Evaluations : EvaluationFits(d)'
    BY <1>1, <1>2, <1>3, <1>6 DEF IInv, EvaluationFits, CompleteFor
<1>8. ASSUME NEW w \in Workers, worker[w].at # "idle" PROVE WorkerFits(w)'
  <2>1. WorkerFits(w) /\ worker[w].job \in Evaluations
      BY <1>0, <1>8, WorkerType DEF IInv
  <2> QED BY <1>2, <1>3, <1>6, <2>1 DEF WorkerFits, Projected
<1>9. \A w \in Workers : WorkerFits(w)' BY <1>3, <1>8 DEF WorkerFits
<1>10. Exclusive' BY <1>3 DEF IInv, Exclusive
<1> QED BY <1>5, <1>7, <1>9, <1>10 DEF IInv

(* A field that moves: an evaluation looks at the boundary it pinned.      *)
LEMMA EditStep == ASSUME IInv, NEW f \in Fields, EditField(f) PROVE IInv'
<1>1. UNCHANGED <<request, status, samples, facts, gaps, spent, job, worker, faults>>
    BY DEF EditField, rows
<1>2. TypeOK' BY <1>1 DEF IInv, TypeOK, EditField
<1>3. \A e \in Evaluations : EvaluationFits(e)'
    BY <1>1 DEF IInv, EvaluationFits, CompleteFor
<1>4. \A w \in Workers : WorkerFits(w)' BY <1>1 DEF IInv, WorkerFits, Projected
<1>5. Exclusive' BY <1>1 DEF IInv, Exclusive
<1> QED BY <1>2, <1>3, <1>4, <1>5 DEF IInv

LEMMA NextInv == IInv /\ [Next]_vars => IInv'
<1> SUFFICES ASSUME IInv, [Next]_vars PROVE IInv' OBVIOUS
<1>1. CASE Next
    BY <1>1, ProcessStep, StartStep, FetchStep, ReturnStep, FaultStep, CrashStep,
       RescueStep, EditStep DEF Next
<1>2. CASE UNCHANGED vars
  <2>1. UNCHANGED <<field, request, status, samples, facts, gaps, spent, job, worker, faults>>
      BY <1>2 DEF vars, rows
  <2>2. TypeOK' BY <2>1 DEF IInv, TypeOK
  <2>3. \A e \in Evaluations : EvaluationFits(e)'
      BY <2>1 DEF IInv, EvaluationFits, CompleteFor
  <2>4. \A w \in Workers : WorkerFits(w)' BY <2>1 DEF IInv, WorkerFits, Projected
  <2>5. Exclusive' BY <2>1 DEF IInv, Exclusive
  <2> QED BY <2>2, <2>3, <2>4, <2>5 DEF IInv
<1> QED BY <1>1, <1>2

LEMMA Invariance == Spec => []IInv
BY InitInv, NextInv, PTL DEF Spec

-----------------------------------------------------------------------------
(* An evaluation that SUCCEEDED has a known value of every critical fact   *)
(* for every sample of the boundary it pinned, and names what it does not  *)
(* know (aggregate, Process); the rows are typed.                          *)
THEOREM EvaluationIsConsistent == Spec => []EvaluationConsistent
<1>1. IInv => EvaluationConsistent
    BY CompletenessOfEach DEF IInv, EvaluationFits, EvaluationConsistent
<1> QED BY <1>1, Invariance, PTL

(* The batch and its retries together stay within the credit limit         *)
(* (guard, retryFailedFields), whatever the price and the number of facts. *)
THEOREM CreditsLimited == Spec => []CreditsWithinLimit
<1>1. IInv => CreditsWithinLimit
    BY DEF IInv, EvaluationFits, CreditsWithinLimit
<1> QED BY <1>1, Invariance, PTL

(* Although Process takes no lock, an evaluation never has two workers,    *)
(* not even when one outlives the rescue of its job.                       *)
THEOREM OneWorkerEach == Spec => []Exclusive
<1>1. IInv => Exclusive BY DEF IInv
<1> QED BY <1>1, Invariance, PTL

(* A step of Process touches the evaluation of its worker only. *)
LEMMA ProcessFrame ==
    ASSUME IInv, NEW w \in Workers, NEW e \in Evaluations, Process(w, e),
           NEW d \in Evaluations \ {e}
    PROVE  /\ status'[d] = status[d] /\ samples'[d] = samples[d]
           /\ facts'[d] = facts[d] /\ gaps'[d] = gaps[d]
<1> USE DEF IInv, TypeOK, End, FailPhysicalEvaluation, CompletePhysicalEvaluation
<1>1. CASE Begin(w, e) BY <1>1 DEF Begin, MarkPhysicalEvaluationRunning
<1>2. CASE Guard(w, e) BY <1>2 DEF Guard, DeletePhysicalEvaluationEvidence
<1>3. CASE FetchBatch(w, e) BY <1>3 DEF FetchBatch
<1>4. CASE Retry(w, e) BY <1>4 DEF Retry
<1>5. CASE Finish(w, e) BY <1>5 DEF Finish, UpsertPhysicalDataGap
<1>6. CASE RecordFailure(w, e) BY <1>6 DEF RecordFailure
<1> QED BY <1>1, <1>2, <1>3, <1>4, <1>5, <1>6 DEF Process

(* An evaluation that ended keeps its samples, facts and gaps, and its     *)
(* status too: whoever could still write to it is at work on one that is   *)
(* active (Process), or records a failure because it did not learn that it *)
(* had ended it (Answer, RecordFailure).                                   *)
THEOREM EndedKeepsItsEvidence == Spec => EndedEvaluationIsFinal
<1> DEFINE Keeps(e) ==
             /\ samples'[e] = samples[e] /\ facts'[e] = facts[e] /\ gaps'[e] = gaps[e]
             /\ \/ status'[e] = status[e]
                \/ status'[e] = "FAILED" /\ \E w \in Workers : At(w, "failed", e)
<1>1. ASSUME IInv, Next, NEW e \in Evaluations, status[e] \in Ended PROVE Keeps(e)
  <2>1. CASE UNCHANGED <<status, samples, facts, gaps>> BY <2>1
  <2>2. ASSUME NEW w \in Workers, NEW d \in Evaluations, Process(w, d) PROVE Keeps(e)
    <3>1. worker[w].at \in Working /\ worker[w].job = d BY <1>1, <2>2, ProcessType
    <3>2. CASE d # e BY <1>1, <2>2, <3>2, ProcessFrame
    <3>3. CASE d = e
      <4>1. worker[w].at = "failed"
          BY <1>1, <3>1, <3>3 DEF IInv, WorkerFits, Working, Active, Ended
      <4>2. RecordFailure(w, e)
          BY <2>2, <3>3, <4>1 DEF Process, Begin, Guard, FetchBatch, Retry, Finish, At
      <4>3. status'[e] = "FAILED" /\ UNCHANGED <<samples, facts, gaps>>
          BY <1>1, <4>2 DEF RecordFailure, End, FailPhysicalEvaluation, IInv, TypeOK
      <4>4. At(w, "failed", e) BY <4>2 DEF RecordFailure
      <4> QED BY <4>3, <4>4
    <3> QED BY <3>2, <3>3
  <2> QED
      BY <1>1, <2>1, <2>2 DEF Next, EditField, Start, Fetch, Return, StatementFails,
         Timeout, Crash, Rescue, rows
<1>2. IInv /\ [Next]_vars =>
        [\A e \in Evaluations : status[e] \in Ended =>
           /\ samples'[e] = samples[e]
           /\ facts'[e] = facts[e]
           /\ gaps'[e] = gaps[e]
           /\ \/ status'[e] = status[e]
              \/ status'[e] = "FAILED" /\ \E w \in Workers : At(w, "failed", e)]_vars
    BY <1>1
<1> QED BY <1>2, Invariance, PTL DEF Spec, EndedEvaluationIsFinal
=============================================================================
