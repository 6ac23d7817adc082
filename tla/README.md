# A verification model of FieldProof (`pfas-load-control`)

FieldProof is a Go service on PostgreSQL with a River job queue.  A wastewater
plant uploads a laboratory report on the PFAS content of its biosolids; the
service extracts and versions the evidence, classifies it under a policy,
screens candidate fields, plans where the biosolids may go, freezes a decision
package, and lets people approve and execute the actions that follow from it.
Several instances of the service may run against one database.

The modules here model the parts where what is correct depends on the order in
which requests, jobs, crashes and retries happen, because that is what the
tests of the repository, which run one call after the other, hardly reach.
Paths below are relative to `src/`.

## 1. Inventory

For each component: the state it keeps, its operations, what is hard about it,
and what makes it correct.

| Component | State | Operations | Hard |
|---|---|---|---|
| **Action center** `internal/actioncenter`, `db/queries/actions.sql` | `actions`, `action_decisions`, `execution_attempts`, `placement_releases` | `Ensure`, `UpdatePayload`, `Approve`/`Reject` (`decide`), `Execute` | `Execute` reads its idempotency key before it locks the row; two packages may have frozen the same plan and then lock different rows |
| **Readiness agent** `internal/agent` | `agent_runs`, `agent_steps`, `tool_calls`, `data_gaps`, a River job per step | `CreateReadinessRun`, `readinessWorker.Work` (prepare, call, persist) | crashes between two transactions, retries counted twice (job and step), snoozes, a job rescued under a living worker |
| **River** (library) | `river_job` | insert, fetch, complete, snooze, retry, discard, rescue | at-least-once execution |
| **Coordination** `internal/coordination` | `coordination_workflows`, `coordination_steps`, documents, notifications | `CreateWorkflow`, `AssignStep`, `ConfirmStep`, `RejectStep` | permission and order are decided on an unlocked read; three kinds of guarded updates |
| **Laboratory reports** `internal/lab` | `lab_reports`, `lab_report_versions`, `lab_report_gaps`, `lab_confirmations` | `Create` (upload), `Process`/`Fail` (job), `Correct`, `Confirm` | the parser runs between two transactions; a failed report is uploaded again while an old job is still about |
| **Field record** `internal/field` | `candidate_fields`, `field_location_lookups`, `field_geometry_versions`, `field_gaps` | `Create`, `Resolve`, `SelectCandidate`, `ConfirmParcel`, `SetGeometry`, `ConfirmGeometry`, `UpdateDetails` | the lookup is a remote call; a confirmation names no parcel and no boundary |
| **Physical evidence** `internal/evidence` | `physical_evaluations`, sample points and facts, gaps | `Start`, `Process` (job, one attempt), `RecordFailure` | many autocommit writes, a credit budget shared with retries, a boundary that moves on, an outcome whose answer is lost and that is overwritten with a failure |
| **Policy** `internal/policy` | `batch_policy_decisions`, `policy_rule_packs` | `Classify`, `Evaluate`, `Get` | thresholds, missing analytes, non-detects, a newer rule pack |
| **Placement** `internal/placement` | `placement_evaluations`, field results, allocations, gaps | `Create`, `Latest`, sampling and resolution | exact arithmetic, a greedy allocation, evidence that is no longer current |
| **Response plan** `internal/responseplan` | `facility_location_lookups`, `response_runs` and their tasks, evidence, leads, alternatives and gaps | `ResolveLocation`, `ConfirmLocation`, `Start`, `Process` (job), `Latest`, `Get` | no transaction in the job, pages that read its tables while it writes, a completion whose answer is lost |
| **Decision package** `internal/decisionpackage` | immutable `decision_packages` | `Create`, `Get` | put together from several reads without a transaction |
| **Applications** `internal/application` | `application_records`, `field_loading_ledger`, `application_confirmations` | `CreateRecord`, `ConfirmApplication` | two statements without a transaction, the error of the second dropped |
| **Parties and consents** `internal/party` | `parties`, `field_parties`, `party_consents` | `Create`, `Delete`, field associations, `CreateConsent`, `RevokeConsent` | check, read and insert in statements of their own; deletions in between |
| **Judge demo** `internal/judgedemo` | demo runs | `Start` | an idempotency key under an advisory lock |
| **Mireye client** `internal/mireye` | none | `Call`, `FetchBatch`, `Lookup` | its error classes drive the retries |
| **Registry, HTTP API, configuration, workspace, observability, generated database code, web client** | reference rows, none, or browser state | CRUD, routing | none of their own |

**How they interact.**  HTTP handlers call the services; the services share the
database and nothing else.  Laboratory, evidence, response and readiness
services insert a River job in the transaction that creates its row, and a
worker of any instance executes it.  The lab report feeds the policy, policy
and confirmed fields feed placement (through the latest physical evaluation of
each field), and the decision package freezes lab report, classification, plan
and response.  The action center reads nothing but the package.  Parties are
the actors of the coordination workflows.

**What makes each part correct.**

* Action center: an action is executed once, as approved, by whoever; a plan is
  released once; every answer is the receipt of a stored execution; decided
  and executed things do not change.
* Readiness: one successful call per step in order; a run that waits says why;
  a run ends, and what ended stays so; the number of attempts is bounded.
* Coordination: the status of a workflow is what its steps say; the actor of a
  step is fixed; sign-off in order, rejection final.
* Laboratory: versions are one history; one confirmation, of the current
  version, without gaps; confirmed evidence never changes; an extraction never
  replaces a correction; extraction ends.
* Field: READY means confirmed boundary and complete facts; stored evidence and
  confirmations are kept; a parcel governs only when it came from a lookup (and
  when an operator saw it).
* Physical evidence: it ends; the credits stay within the limit; SUCCEEDED
  means complete critical facts; an evaluation that ended keeps its evidence,
  and its status unless its worker did not learn of it.
* Response plan: a run that is shown as ended is complete and of one attempt;
  its outputs stay; it ends.
* Policy, placement: allocations and the rest are the batch; no field gets more
  than its capacity or is allocated without evidence; fields of least concern
  come first; nothing is allocated that its tier forbids.
* Decision package: what is frozen fits together, an allocation rests on the
  evidence its plan saw, and it is READY only when nothing in it is missing.
* Parties, applications: no row names a party that is gone; a consent that ended
  never counts again; the ledger is the total of what reached it.

`PROJECT.json` lists the hazards with the line where each bites and the
properties that would catch it.

## 2. Plan

In the order of importance.  All of the modules below are built.

1. `ActionCenter` with `ActionCenterProofs` — the core: what is finally done
   with the biosolids.
2. `River` and `Readiness` — the queue, and the worker with most steps.
3. `SignOff` (abstract) and `Coordination` (implements it), with
   `CoordinationProofs`.
4. `LabReport`, on `River`.
5. `FieldRecord`.
6. `PhysicalEvaluation`, on `River`: the credit budget, fetch failures and a
   moving boundary.
7. `ResponseRun`, on `River`: a job without transactions, and its readers.
8. `Classifier`, `PlacementEngine` (pure) and `DecisionPackage` (the pipeline
   that applies them to stored evidence while it changes).
9. `Parties`, and `Applications` composed with it, with `ApplicationsProofs`.

`ReadinessProofs` (2), `DecisionPackageProofs` (4 and 8), `FieldRecordProofs` (5),
`PhysicalEvaluationProofs` (6) and `ResponseRunProofs` (7) complete the proofs:
every safety property of every passing run is a theorem; liveness stays with TLC.
No module uses a RECURSIVE operator; sums are recursive functions or folds.

## 3. Modules and the code

Every definition that stands for code is in the `map` of `PROJECT.json` with
its lines.  A transaction whose row lock covers all it reads is one action; a
read before the lock, a call to another service between two transactions, and
everything a crash can separate are actions of their own.

**`ActionCenter`** — one workspace with several packages.  `Ensure`,
`UpdatePayload` and `Decide` are single steps on an unlocked row.  `Execute` is
five: `ExecuteLookup` (service.go:234-261, before the lock), then `ExecuteReplay`
or `ExecuteLock` (262-321, all checks under the lock), `ExecuteCommit` (322-393:
inserts that a unique index may refuse, status, commit), and `ExecuteDone`, the
answer.  `ExecuteAbort` is a lost connection, cancelled request or dead process
at any of them.  `snapshot` is what `decisionpackage/build.go` froze; payloads
are told apart by their hash, and whether they name a recipient.  Each decision
keeps, as ghost data, the hash its reviewer sent.

**`River`** — the state of a job and its attempts; external, from how
`agent/runtime.go` and the workers use it.

**`Readiness`** — `worker[w].at` is the place in `readinessWorker.Work`:
`prepare` (one transaction), `call` (no transaction), then `persistSuccess` (one
transaction that queues the next job), or `persistFailedCall` (a statement)
followed by `persistGap` (a transaction), a snooze or an error.  `Rescue` is
River's rescuer, which knows only the age of a job.  A commit whose answer is
lost is a `Crash` after it: either way River tries the job again.  `outlives`,
chosen at the start, says whether a rescued worker may still live: `Zombies` lists
the choices.

**`Coordination`** — `ReadStep` is the unlocked read that `ConfirmStep` and
`RejectStep` start with, `ConfirmStep` and `RejectStep` their locked part.
Documents and notifications are written in the same transactions but read by
nobody, and are left out.  `SignOff` is the abstract specification, instantiated WITH the
refinement mapping (`outcome`, `signer`) at the end of `Coordination`.

**`LabReport`** — one report, since reports share no row.  `Begin` and `Persist`
are the two transactions of `Process`; `Parse` chooses an outcome of the parser;
`PersistUnacknowledged` is a commit whose answer is lost; `Fail` is what the
worker of the last attempt does.  Its specification is `ReportSpec`, so that
`DecisionPackageProofs` can extend it and `DecisionPackage`.

**`FieldRecord`** — one field.  `Ask`, `LookupReturns` and `StoreLookup` are the
three stages of `resolveInput`; `ReadParcel` and `ConfirmParcel` the read and
the transaction of `ConfirmParcel`.  `Press...` is the operator's click, with
what the page showed then, kept in the ghost variable `endorsed` that no guard
reads.  Geometry and lookup inputs are values told apart by their hash.

**`PhysicalEvaluation`** — `Begin`, `Guard`, `FetchBatch`, `Retry` (one for each
of `physicalFieldSpecs`) and `Finish` are the stages of `Process`, which holds no
transaction; `RecordFailure` and `Return` are the rest of `Worker.Work`.
`EditField` is whatever `FieldRecord` does to the status and the current
boundary, at any time.  A fact is told apart by what aggregation makes of it: ok,
ok with an unusable value, absent, failed, failed and retryable.  `spent` counts
the credits of the answers that arrived; the code deducts no others, so a call
that was charged and whose answer was lost is outside of `CreditsWithinLimit`.
Each of the three statements that end an evaluation (`CompletePhysicalEvaluation`,
`review`, `RecordFailure`) may commit without its worker learning of it (`Answer`):
the worker then does what it does after any error (`AfterError`), and records
FAILED over whatever was stored, because `FailPhysicalEvaluation` looks at no
status.  The rows of one stage (samples, the facts of a batch, the gaps) are
written in one step: what a fault leaves of them halfway is of an evaluation that
turns FAILED or stays RUNNING, of whose rows no property speaks before it ended.

**`ResponseRun`** — `ResolveLocation`, `ConfirmLocation` and `Start` are single
steps.  The job holds no transaction: `worker[w].todo` is the list of statements
`Process` has yet to execute, in the order of the code, after `Clear`, which
deletes what an attempt before it wrote.  A statement may fail, and the answer of
one that committed may be lost; the worker then records a FAILED run, without a
guard, or, if that fails too, leaves the job to River.  `reader` is a page (or
the package) that reads the status first and the tables one by one.

**`Classifier`** and **`PlacementEngine`** — `Evaluate` of the policy and the
engine of the placement as pure operators.  A decimal is an integer number of
units; `formatRat` rounds to the unit like the code's six places.  What a fact
measures is named by the side of the code's limits it lies on.

**`DecisionPackage`** — applies them to stored evidence.  `Classify` and
`CreatePlan` are transactions (the latter REPEATABLE READ) and single steps; a
package is read in four stages, `GetDecision`, `ReadPlan`, `ReadResponse`,
`ReadEvidence` (once for each evaluation), and stored by `Store`.  Rule packs
that follow one another, corrected quantities, boundaries, evaluations and
responses change in between, as far as their own modules let them.
`EndEvaluation` and `RecordFailure` are the end of an evaluation and the failure
recorded over it after the answer was lost (the flag `lost` of its row).

**`Parties`** and **`Applications`** — `CreateConsent` is four statements
(`CheckActiveConsent`, `GetParty` twice, the insert), `CreateRecord` two
(`filing` is a request between them).  Foreign keys are the guards `Exists`,
`Holds` and `Filed`.  Consents keep, as ghost data of a request, which rows its
check saw.  `Applications` extends `Parties`: its steps are those of `Parties`,
with the deletion of a party that filed rows name refused, and its own.

## 4. Runs

Where a module has several parts of one claim, its run checks their conjunction,
the type invariant with the module's agreement of rows: `RunConsistent` of
`Readiness` adds `WaitingExplained` and `GapPausesRun`, `ReportConsistent` of
`LabReport` adds `OneHistory` and `ConfirmedOnce`, `FieldConsistent` of
`FieldRecord` adds `ReadyMeansConfirmed`, `EvaluationConsistent` of
`PhysicalEvaluation` adds `SucceededIsComplete`, `ResponseConsistent` of
`ResponseRun` adds `ShownIsComplete`, and `PackageConsistent` of
`DecisionPackage` adds `ReadyIsComplete`.  Likewise `EvidenceKept` is
`VersionsKept` and `LookupsKept`, `AllocationSound` is `AllocationsConserve`,
`WithinCapacity` and `LeastConcernFirst`, `NamedExist` is `PartiesExist` and
`FiledExist`.

| Run | What it asks | Instance, and why it is enough |
|---|---|---|
| `action` | One execution of what was approved, one release of a plan, an answer for every call, decisions and executed actions final (`OneExecution`, `ExecutedIsApproved`, `ReleaseMatchesExecution`, `AnswerIsStored`, `DecisionFinal`, `ExecutedFrozen`), and no error path that keeps a row locked (`ExecuteReturns`) | two calls and two keys: each can be winner, loser or replay.  The constraint `Situation` joins two instances: two packages that froze one plan, with two revisions and two payloads (the race is between two rows and one unique index); and one package with a handoff and a control, any gaps, three revisions (an edit away and back) and three payloads, one without recipient |
| `readiness` | One success per step in order, why a run waits, where a gap may be, how often a step is tried, that ended runs stay ended (a run past its last step even when a worker outlived its rescue) and that runs end | two steps (a first and a last; nothing else distinguishes steps), two workers, two faults, with workers that do and do not outlive the rescue of their job |
| `readiness_stuck` (violation) | `NewRunPossible`: see findings | one worker, one fault, three steps |
| `coordination` | Steps and status agree, actors are fixed, the sign-off is implemented, by which a rejection is final | one workflow, a party for each role and a second one for one of them, three concurrent requests: one of each role, or a rejection and two confirmations |
| `lab` | One history, one confirmation, immutability, corrections stay, extraction ends | two jobs (an upload and a re-upload), two workers, two faults (one per attempt), three versions |
| `field` | READY means confirmed, evidence and confirmations are kept, parcels come from lookups | two boundaries and a locator with a choice; two concurrent requests; three answers |
| `field_unseen` (violation) | `ParcelWasEndorsed`: see findings | a locator with two choices, two requests |
| `evaluation` | SUCCEEDED means complete for the pinned boundary, credits within the limit, evaluations end, and one that ended keeps its evidence and its status but for the failure recorded after a lost answer (`EndedEvaluationIsFinal`) | one evaluation (two share no row; `Start` keeps them apart under the lock of the field); boundaries with two, one and no samples; a critical fact and another; a limit of 6 credits, which at price 1 leaves room for one of two retries and at price 2 for the smaller boundary only; two workers and one fault, enough for a worker to outlive a rescue or to lose the answer of a completion |
| `response` | What is shown of an ended run is complete and of one attempt, READY exactly without gaps; outputs of ended runs stay; runs end | one run, every tier, three sources with every kind of answer, the plant among its own leads; one page; two faults: a lost completion and a failure to record it is the longest unlucky sequence of an attempt; three attempts, more than the faults, as River's 25 are |
| `package` | Allocations and the rest are the batch, capacity, order of concern, tier, evidence as the plan saw it (`AllocatedHasEvidence`), READY only when complete | two rule packs, the second with lower thresholds and cap; a report of each tier, and a non-detect above the threshold; two fields of which one ties and one rounds; a batch that the first field takes and one beyond both; two evaluations, one plan, one package, one change of pack, boundary or response, or one lost answer of an evaluation; the constraint `Unfinished` stops at the package and, once the only plan is made, leaves out what only a further plan would read (a field changed or an evaluation begun since) |
| `package_boundary` (violation) | `AllocatedBoundaryChecked`: see findings | the same |
| `records` | No row names a missing party, twins only from overlapping requests, ended consents stay ended, the ledger is the total | two parties, two consents and two requests for them, two records whose dates lie in and before the years of the ledger, two filers; the constraint keeps the three uses of a party (consent, field, record) from being multiplied where they share nothing but the party |

Deadlock is checked in `action` and `records`.  The other systems really stop:
when every run ended, every step is decided, every bound is used up.

Bounds, all of them named constants: `MaxRevision` (edits), `MaxFaults`
(crashes, failed statements, lost answers, outlived rescues), `MaxVersion`
(corrections), `MaxLookups` (answers of the lookup service), `MaxSamples`
(sampling points), `MaxLeads` (leads kept, 10 in the code), `MaxEvaluations`,
`MaxPlans`, `MaxPackages`, `MaxChanges`.  River's and the workers' limits (3, 2)
are those of the code, except the 25 attempts of a response.  Symmetry is used
only where no liveness property is checked and only over interchangeable calls,
parties and records.  `Situation` and `Unfinished` are state constraints: what is
beyond them is not explored; `ExecuteReturns`, the one liveness property under a
constraint, is about calls whose steps never leave it.

**Fairness.**  Workers and the queue are fair: River polls, the job timeout ends
every attempt (`agent/runtime.go:57-67`), and a rescuer finds the jobs of dead
processes.  `ExecuteLock` and `ExecuteReplay` are strongly fair because
PostgreSQL grants a row lock to its waiters in turn.  Nothing that users do is
fair.  Faults are never fair and the liveness properties hold although they
occur, except where one has spent the last attempt of a job, as the properties
say.

## 5. Proofs

For any values of the constants that satisfy the named assumptions (sets are
disjoint where the code's are; `None` is none of the values).

**`ActionCenterProofs`** proves all the safety properties of the
`action` run: `TypeCorrect`, `ExecutedOnce`, `ExecutedApproved`, `ReleasedOnce`,
`AnswersStored`, `DecisionsFinal`, `ExecutedStaysFrozen`.  The four invariants
are not inductive: when `Execute` stores, it relies on what it read when it
locked.  `IInv` adds `LockInv` (a call past its lock holds the lock of its
action and only such a call does; what it read under the lock still stands,
*except* that the plan is unreleased, which only the unique insert decides; a
key that was found stays in the table) and `ApprovedInv` (an APPROVED action
carries the approval of its current revision and payload, seen by its reviewer,
with a recipient and with the gaps accounted for).  There is one lemma per
conjunct and, in each, one step per action; the two action properties follow
from the invariant.

**`CoordinationProofs`** proves `TypeCorrect`, `StatusAgrees`, `ActorsFixed`,
`RejectionsFinal` and `SignOffImplemented`, the refinement.  Its `IInv` adds
`PartyFits` (an assigned party has the role of its step, and a decided step has
one) and `CallFits` (a request past its unlocked read speaks of a workflow that
exists, and for the party its step is still assigned to).  They say why the
unlocked read is harmless: an assigned party never changes.

**`ApplicationsProofs`** proves `TypeCorrect`, `NamedThere` (from `PartiesThere` and
`FiledThere`), `TwinsOnlyFromOverlap` and `ConsentsEnd`, for any parties, clients, dates and
rows.  The invariant `PInv` of `Parties` is proved of `PSpec` alone; `Composed`
shows that the composed specification implements `PSpec`, which carries
everything over.  `PInv` adds `ChecksHold` to the types and `PartiesExist`: of
the consents that the check of a request saw, none is an active one of the kind
asked for, neither while the request is under way nor after its insert, because
an ended consent stays ended.  Of two active consents each was therefore not
seen by the other's check, so the requests overlapped.
The filed rows have an invariant of their own, `AInv`.
`LedgerTotals` proves `LedgerIsTotal` from `LInv`: at most one request is
between storing a record of a field and adding it to the ledger (`OneFollows`:
the row of the field is locked), and each cell of the ledger and what that
request still has to add are together the sum of the stored records.  The sum
is a fold over a finite set, in an order that `CHOOSE` fixes; `SumAdds` shows
that the order does not matter.

**`FieldRecordProofs`** proves `FieldIsConsistent`, `GapsAreSynced`,
`ParcelRestsOnLookup` and `EvidenceStays`.  The gaps are a table that handlers
patch and the status is a column; `Synced` says that both are always the function
of the other rows that `SyncFieldState` computes, and `ReadyMeansConfirmed`
follows.  `RequestsFit` says what an unlocked read may rely on: a lookup that was
stored stays, and a field that has a boundary keeps one.

**`PhysicalEvaluationProofs`** proves `EvaluationIsConsistent`, `CreditsLimited`,
`OneWorkerEach` and `EndedKeepsItsEvidence`.  `Process` checks no status after its
first statement.  What protects its rows is that a job has one attempt:
`Exclusive` says that no two workers have the same evaluation, `WorkerFits` that
the price, the remaining credits and the samples a worker keeps in memory agree
with the rows, and `EvaluationFits` that what SUCCEEDED is complete for the
boundary of its request and never spent more than the limit.  A worker is past
the first statement of an evaluation that ended only to record a failure, or
to return: that is all that can still happen to it.

**`ReadinessProofs`** proves `RunIsConsistent`, `CallsSucceedOnce`,
`AttemptsLimited` and `EndedRunStays`.  `persistSuccess` checks the run and the
step under a lock, `persistGap` does not.  The proof of the first needs that
attempt numbers are unique among the workers (`Distinct`); that of the second,
that without outlived rescues a worker is alone on its step and the run is still
there (`WorkerFits`): `WaitingExplained` and the first part of `EndedRunIsFinal`
hold under that premise and state it.  The second part needs none: a run is past
its last step only once it ended (`PastIsEnded`), and both transactions that could
make it act again compare the step of their job with it.  `AttemptsBounded` rests on `Budget`: River counts
the tries of a job, a snooze gives one back, and the count together with the
attempts that can no longer be snoozed pays for every attempt made or about to
be made.

**`ResponseRunProofs`** proves `ResponseIsConsistent`, `EndedRunKeepsItsRows` and
`OneWriter`.  The worker writes without a transaction, so the invariant goes
statement by statement: `PointFits` gives, for each point of an attempt, exactly
the rows that the statements before it have written, from the first `DELETE` on.
`Exclusive` says that a run has one worker, `WorkerFits` that a worker writes only
while its run is RUNNING, and `PageFits` that a page or a package that reads the tables of an ended
run one after another has rows of that run's last attempt and no other.

**`DecisionPackageProofs`** starts with the report, because `DecisionPackage`
takes the confirmed report as fixed and it is a theorem of `LabReport` that it
is.  `ReportIsConsistent`, `CurrentVersionStands`, `ConfirmedNeverChanges` and
`CorrectionsNeverLost` follow from `ReportInv`: `Persist` of a worker never looks
at `current_version`; what stops a late one is the unique key on `(report,
version)`, and that is enough because of `CurrentStands` (the current version is
one nobody superseded, so that a free version 1 means that there is none) and
`AttemptLeft` (a job that waits has an attempt left).  `CurrentVersionStands` says
it together with `NoneNewer`: no version is stored beyond the current one.

Then come the engine's operators: `RankFieldsSorts` (the ranking is a
permutation in an order that is total because the candidate list has each field
once), `Formatted` (rounding to the unit adds no more than half a unit), `AllocateFits`
(the running remainder never rises or becomes negative, and a row is given what
the remainder lost at its turn), `AllocationsOf` (rows and rest are the batch, and
a field that is passed over has no capacity or finds nothing left) and
`PlanIsSound`, which puts them together.  Of
the packages, `IInv` says that each plan in the table is what the engine makes of
its stored input and rests on evaluations that had SUCCEEDED (`PlansMade`), and
that what a client has read so far, and what a package froze, is true of the
tables (`ClientsAsk`, `PackagesKept`).  It survives the steps that come between
two reads because decisions and plans are only ever added, and because an
evaluation that SUCCEEDED keeps its evidence and is at most turned FAILED by the
worker that did not learn of it (`Stood`, `Overruled`): `Grows` says this of every
step and `ReadsStay` draws the conclusion.  The theorems are `AllocationsAreSound`,
`PackagesWithinTier`, `AllocationsHaveEvidence` and `PackageIsConsistent`, for any packs, reports,
profiles, quantities and numbers of fields, clients and changes.

The assumptions on constants are those that the code or the schema gives:
`NoneAssumption` of each module says that `None` (`Nothing` in `LabReport`; a
NULL, a row that is not there) is none of the values it stands beside;
`BoundsAssumption`, `CreditsAssumption` and the like that limits and counts are
naturals and prices positive; `SamplesAssumption` that a boundary has as many
samples as its geometry gives; `WorkersAssumption` that the processes that work
on jobs are finitely many. In `DecisionPackage`, quantities, acres and rates are
naturals or NULL and a batch is entered with both of its quantities (nothing
negative gets past `positiveDecimal` and `nonnegativeDecimal`,
`engine.go:202-227`), a rule pack is one that `validateRulePack` accepts, the
candidate list has each field once, and an evaluation ends in one of its three
statuses. The bounds that keep TLC's instances small (`MaxFaults`, `MaxVersion`,
`MaxLookups`, ...) are any naturals in the proofs.

Least and greatest elements, sums and the existence of recursively defined
functions are proved by a least counterexample (`WFMin` of
`WellFoundedInduction` on the naturals, or the smallest finite set), since the
induction theorems of the library take an operator as their parameter.

Model-checked only is all liveness (`RunEnds`, `ExtractionEnds`,
`EvaluationEnds`, `ResponseEnds`, `ExecuteReturns`): fairness and ENABLED
are out of the prover's reach.  The findings are counterexamples and need no
proof.

## 6. Findings

* `readiness_stuck` — a crash or a failed statement can spend River's attempts
  of a job without spending the step's.  The run then stays RUNNING without a
  job, and the unique index on active runs refuses any other, while the operator
  is told to start a new one (`internal/agent/worker.go:263`).
* `field_unseen` — two choices of an ambiguous location are looked up at once;
  the operator confirms the parcel shown, and the other one, stored in between,
  becomes the confirmed boundary (`README.md:202`).
* `package_boundary` — a boundary is replaced and confirmed after the field was
  evaluated; placement takes the newest evaluation, which is of the boundary
  before, and allocates, although `internal/placement/engine.go:181` holds back a
  field whose "physical conditions have not been checked for the confirmed
  boundary".

Seen while modelling, and no runs of their own:

* A fault in the last attempt of each extraction leaves a report PROCESSING for
  good (the premise of `ExtractionEnds`); one in the only attempt of an
  evaluation leaves it RUNNING, and `Start` returns it for good (the exception of
  `EvaluationEnds`); a worker that outlived its rescue may record a gap on a run
  that has gone on or ended, and pause it (`EndedRunIsFinal` says what remains
  true of it).
* An evaluation whose completion is stored but not acknowledged turns from
  SUCCEEDED to FAILED, with its facts in place, because the worker records every
  error of `Process` (`internal/evidence/worker.go:31`) and the statement looks at
  no status (`db/queries/evidence.sql:57-61`).  When that happens between a plan
  and its package, the package is READY and shows an allocated field with a
  FAILED evaluation: `internal/decisionpackage/build.go` does not look at it.
  `EndedEvaluationIsFinal` and `AllocatedHasEvidence` allow this and no more.
* `Execute` holds a connection, and the lock of its row, while it reads the
  package through the pool (`internal/actioncenter/service.go:300`); the pool has
  eight (`internal/database/database.go:23`).  Eight such calls at once, those
  included that wait for a row, would wait for each other.
* A response that FAILED, or ended with a gap, is never built again: `Start`
  finds the stored run of the same input and queues no job
  (`internal/responseplan/service.go:252`), while the gap says "Retry the
  response" (line 394).
* A confirmation of an application is inserted as confirmed and then updated
  where it is not confirmed: the request always fails and each one leaves a row
  (`internal/application/service.go:284-297`).
* Two requests for the same consent that overlap are both granted
  (`internal/party/service.go:254-283`); `TwinsOverlapped` says that nothing else
  makes two.
* `ON DELETE SET NULL` of the key `(party_id, workspace_id)` would set the
  workspace to NULL, which is forbidden: a party of a coordination step or a
  registry entry cannot be deleted
  (`db/migrations/00015_module_09_10_11_12.sql:72,132`).
* Nothing checks that the contractor of a record or the farmer of a confirmation
  has that role; a record dated outside 2020..2100 never reaches the ledger.
* Two rule packs are active while one takes over from the other, and every
  classification fails until the older is retired
  (`internal/policy/service.go:235`); a package may hold a plan made under the
  cap of the older.
* A package freezes the quantity of the batch as it is and a plan made for an
  earlier one; a batch that rounds to zero is READY without an allocation; a rate
  that rounds to zero would be divided by.

## 7. Not modelled

* The connection pool: a statement gets a connection.  `ExecuteReturns` therefore
  speaks of fewer concurrent calls than the pool has connections.
* Judge demo: one request computes a demonstration and stores it with one
  insert; a process mutex and an advisory lock per key keep two apart, and the
  insert does nothing when the key is there.
* Slope resolution (`internal/placement/resolution.go`): some forty ordered
  checks of stored artefacts; no plan of the database passes one, only the demo.
* Text and PDF extraction, CSV import, geometry, HTTP routing, configuration, the
  migration command, the sources of adjacent evidence (wells, facilities, whose
  failures are gaps that are never critical), registry imports and the web client
  carry no protocol of their own: their results enter as chosen outcomes or as
  the constraints the services rely on.
* Documents and notifications of a coordination workflow, which nothing reads;
  names, addresses and wording everywhere.

Workspaces separate all rows, so one workspace is modelled.
