--------------------------- MODULE DecisionPackage --------------------------
(***************************************************************************)
(* From a confirmed report to a decision package: the classification of    *)
(* the report (internal/policy/service.go), the placement plans of its     *)
(* decisions (internal/placement/service.go) and the packages that freeze  *)
(* a decision, a plan, the response and the evidence of the fields         *)
(* (internal/decisionpackage).  A classification and a plan are made in    *)
(* one transaction each; a package is put together from reads of its own,  *)
(* between which packs, quantities, plans, responses and evaluations       *)
(* change.                                                                 *)
(*                                                                         *)
(* The fields, their evaluations and the responses have modules of their   *)
(* own (FieldRecord, PhysicalEvaluation, ResponseRun): here they do what   *)
(* those modules let them do.                                              *)
(***************************************************************************)
EXTENDS PlacementEngine

CONSTANTS
    Pack,           \* the rule packs, in the order of effective_from
    EvidenceInputs, \* what the confirmed report may say
    Fields, FieldOrder, \* the candidate fields, in the order of created_at
    Profiles,       \* operating details of the fields, a function of Fields each
    Outcomes,       \* how an evaluation may end
    NoFacts,        \* what is known of a field without evaluation
    Quantities,     \* what an operator may enter for the batch
    Clients,
    MaxEvaluations, MaxPlans, MaxPackages, \* bounds
    MaxChanges      \* bound: changes of packs, fields and ended responses,
                    \* lost answers of evaluations

ASSUME NoneAssumption == None \notin Int \cup {"READY", "REVIEW_REQUIRED"}
ASSUME BoundsAssumption == MaxChanges \in Nat
ASSUME PackAssumption ==
    \A p \in DOMAIN Pack : /\ {Pack[p].elevated, Pack[p].prohibited, Pack[p].cap} \subseteq Nat
                           /\ validateRulePack(Pack[p])
ASSUME EvidenceAssumption ==
    \A r \in EvidenceInputs : \A a \in r.analytes :
        /\ a.nonDetect \in BOOLEAN
        /\ {a.value, a.reportingLimit, a.detectionLimit} \subseteq Int \cup {None}
ASSUME FieldAssumption ==
    /\ Len(FieldOrder) \in Nat /\ DOMAIN FieldOrder = 1..Len(FieldOrder)
    /\ Fields = {FieldOrder[n] : n \in DOMAIN FieldOrder}
    /\ \A m, n \in DOMAIN FieldOrder : FieldOrder[m] = FieldOrder[n] => m = n
ASSUME ProfileAssumption ==
    \A p \in Profiles, f \in Fields :
        /\ {p[f].acres, p[f].agronomic, p[f].prior} \subseteq Nat \cup {None}
        /\ p[f].road \in Int
ASSUME OutcomeAssumption ==
    \A o \in Outcomes : /\ o.status \in {"SUCCEEDED", "REVIEW_REQUIRED", "FAILED"}
                        /\ {o.critical, o.other} \subseteq Nat
ASSUME QuantityAssumption ==
    /\ None \notin Quantities
    /\ \A q \in Quantities : {q.wet, q.solids} \subseteq Nat

Packs == DOMAIN Pack

VARIABLES
    report,    \* the confirmed evidence, which never changes
    packs,     \* policy_rule_packs
    decided,   \* batch_policy_decisions: UNIQUE (report_version_id, rule_pack_id)
    quantity,  \* wet mass and solids of the batch, or None
    profile, field, \* candidate_fields
    evals,     \* physical_evaluations in the order of created_at; whether the
               \* worker of one did not learn that it had ended it
    plans,     \* placement_evaluations in the order of created_at
    response,  \* the latest response run of each decision
    packages,  \* decision_packages
    client,    \* a request to create a package
    changes    \* counts the changes

outside == <<report, profile>>
vars == <<outside, packs, decided, quantity, field, evals, plans, response, packages, client, changes>>

NoSnapshot == [decision |-> None, quantity |-> None, plan |-> None, response |-> None,
               physical |-> {}]
Idle == [at |-> "idle", decision |-> None, snapshot |-> NoSnapshot]

Init ==
    /\ report \in EvidenceInputs
    /\ packs = [p \in Packs |-> IF p = 1 THEN "ACTIVE" ELSE "ABSENT"]
    /\ decided = {}
    /\ quantity = None
    /\ profile \in Profiles
    /\ field = [f \in Fields |-> [ready |-> TRUE, boundary |-> 1]]
    /\ evals = <<>>
    /\ plans = <<>>
    /\ response = [p \in Packs |-> "ABSENT"]
    /\ packages = {}
    /\ client = [c \in Clients |-> Idle]
    /\ changes = 0

Change == changes < MaxChanges /\ changes' = changes + 1

-----------------------------------------------------------------------------
(* Rule packs and classification. *)

InsertPolicyRulePack(p) ==
    /\ packs[p] = "ABSENT"
    /\ packs' = [packs EXCEPT ![p] = "ACTIVE"]

(* A release of the program seeds its pack when it starts; the pack before *)
(* it is retired by hand, some time after that.                            *)
EnsureRulePacks(p) ==
    /\ Change
    /\ InsertPolicyRulePack(p)
    /\ packs[p - 1] # "ABSENT"
    /\ UNCHANGED <<outside, decided, quantity, field, evals, plans, response, packages, client>>

RetirePack(p) ==
    /\ packs[p] = "ACTIVE"
    /\ \E o \in Packs : o > p /\ packs[o] = "ACTIVE"
    /\ packs' = [packs EXCEPT ![p] = "RETIRED"]
    /\ UNCHANGED <<outside, decided, quantity, field, evals, plans, response, packages, client, changes>>

(* Exactly one pack applies, or nothing is classified. *)
ListApplicablePolicyRulePacks == {p \in Packs : packs[p] = "ACTIVE"}
activeRulePack(p) == ListApplicablePolicyRulePacks = {p}

GetConfirmedReportForClassification == report
tier(p) == Evaluate(Pack[p], GetConfirmedReportForClassification)

(* ON CONFLICT DO NOTHING: the decision that is stored is the answer. *)
GetBatchPolicyDecisionByVersion(p) == p \in decided
CreateBatchPolicyDecision(p) == decided' = decided \cup {p}

Classify(p) ==
    /\ activeRulePack(p)
    /\ ~GetBatchPolicyDecisionByVersion(p)
    /\ CreateBatchPolicyDecision(p)
    /\ UNCHANGED <<outside, packs, quantity, field, evals, plans, response, packages, client, changes>>

(* The decision in force for a report: of the newest pack that applies. *)
GetBatchPolicyDecisionForWorkspace(p) ==
    LET applying == decided \cap ListApplicablePolicyRulePacks
    IN p \in applying /\ \A o \in applying : o <= p

ListBatchPolicyRequirements(p) == requirementsFor(tier(p))

-----------------------------------------------------------------------------
(* What goes on around the plans, by the rules of its own modules. *)

(* A boundary is replaced and confirmed, or details are taken back. *)
ConfirmBoundary(f) ==
    /\ Change
    /\ field' = [field EXCEPT ![f].boundary = @ + 1]
    /\ UNCHANGED <<outside, packs, decided, quantity, evals, plans, response, packages, client>>

UpdateDetails(f) ==
    /\ Change
    /\ field' = [field EXCEPT ![f].ready = ~@]
    /\ UNCHANGED <<outside, packs, decided, quantity, evals, plans, response, packages, client>>

Of(f) == {i \in DOMAIN evals : evals[i].field = f}

StartEvaluation(f) ==
    /\ field[f].ready
    /\ \A i \in Of(f) : evals[i].status # "RUNNING"
    /\ Len(evals) < MaxEvaluations
    /\ evals' = Append(evals,
         [field |-> f, boundary |-> field[f].boundary, status |-> "RUNNING", critical |-> 0,
          other |-> 0, supplemental |-> FALSE, facts |-> NoFacts, lost |-> FALSE])
    /\ UNCHANGED <<outside, packs, decided, quantity, field, plans, response, packages, client, changes>>

(* The worker may not get the answer of the statement that ends it ... *)
EndEvaluation(i, o, lost) ==
    /\ evals[i].status = "RUNNING"
    /\ evals' = [evals EXCEPT ![i] =
         [@ EXCEPT !.status = o.status, !.critical = o.critical, !.other = o.other,
                   !.supplemental = o.supplemental, !.facts = o.facts, !.lost = lost]]
    /\ IF lost THEN Change ELSE UNCHANGED changes
    /\ UNCHANGED <<outside, packs, decided, quantity, field, plans, response, packages, client>>

(* ... and then records a failure, with nothing else of it changed. *)
RecordFailure(i) ==
    /\ evals[i].lost
    /\ evals[i].status \in {"SUCCEEDED", "REVIEW_REQUIRED"}
    /\ evals' = [evals EXCEPT ![i].status = "FAILED"]
    /\ UNCHANGED <<outside, packs, decided, quantity, field, plans, response, packages, client, changes>>

(* A response starts for a batch that needs one, ends, may turn FAILED     *)
(* when its completion is not acknowledged, and may be made again.         *)
RespondTo(p) ==
    /\ p \in decided
    /\ tier(p) \in {"ELEVATED", "PROHIBITED"}
    /\ \E s \in {"RUNNING", "READY", "REVIEW_REQUIRED", "FAILED"} :
         /\ response[p] = "RUNNING" \/ s \in {"RUNNING", "FAILED"}
         /\ response[p] # "ABSENT" \/ s = "RUNNING"
         /\ IF response[p] \in {"ABSENT", "RUNNING"} THEN UNCHANGED changes ELSE Change
         /\ response' = [response EXCEPT ![p] = s]
    /\ UNCHANGED <<outside, packs, decided, quantity, field, evals, plans, packages, client>>

-----------------------------------------------------------------------------
(* Placement. *)

LatestEvaluation(f) ==
    IF Of(f) = {} THEN None ELSE CHOOSE i \in Of(f) : \A j \in Of(f) : j <= i

(* The field with its newest evaluation, whatever became of it since. *)
ListPlacementFieldInputs(n) ==
    LET f == FieldOrder[n]
        i == LatestEvaluation(f)
        e == IF i # None THEN evals[i]
             ELSE [status |-> "", critical |-> 0, other |-> 0, supplemental |-> FALSE,
                   facts |-> NoFacts]
    IN [field |-> f, position |-> n, status |-> IF field[f].ready THEN "READY" ELSE "NEEDS_DETAILS",
        rmpApproved |-> TRUE, acres |-> profile[f].acres, agronomic |-> profile[f].agronomic,
        prior |-> profile[f].prior, crop |-> profile[f].crop, road |-> profile[f].road,
        evaluation |-> i, physicalStatus |-> e.status, critical |-> e.critical,
        other |-> e.other, supplemental |-> e.supplemental, facts |-> e.facts]

loadFields == [n \in DOMAIN FieldOrder |-> ListPlacementFieldInputs(n)]

matchedPolicyRate(p) == matched(Pack[p], tier(p))

(* The input of a plan, by which plans are told apart. *)
GetPlacementContext(p, used) ==
    [tier |-> tier(p), policyRate |-> matchedPolicyRate(p), quantity |-> used,
     fields |-> loadFields]

UpdatePlacementBatchQuantity(used) == quantity' = used

GetPlacementEvaluationByInput(p, input) ==
    \E i \in DOMAIN plans : plans[i].decision = p /\ plans[i].input = input

CreatePlacementEvaluation(p, input) ==
    /\ Len(plans) < MaxPlans
    /\ plans' = Append(plans, [decision |-> p, input |-> input,
                               boundary |-> [f \in Fields |-> field[f].boundary],
                               result |-> EvaluatePlan(input)])

(* Create, a REPEATABLE READ transaction; q is None when the request gives *)
(* no quantity and the one of the batch is used.  A plan made from the     *)
(* same input before is the answer.                                        *)
CreatePlan(p, q) ==
    LET used == IF q # None THEN q ELSE quantity
        input == GetPlacementContext(p, used)
    IN /\ p \in decided
       /\ tier(p) # "UNDETERMINED"
       /\ UpdatePlacementBatchQuantity(used)
       /\ IF GetPlacementEvaluationByInput(p, input) THEN UNCHANGED plans
          ELSE CreatePlacementEvaluation(p, input)
       /\ UNCHANGED <<outside, packs, decided, field, evals, response, packages, client, changes>>

GetLatestPlacementEvaluation(p) ==
    LET mine == {i \in DOMAIN plans : plans[i].decision = p}
    IN IF mine = {} THEN None ELSE CHOOSE i \in mine : \A j \in mine : j <= i

(* hydrate: the rows of a plan, which are only ever inserted with it. *)
hydrate(i) == plans[i].result
ListPlacementFieldResults(i) == hydrate(i).fields
ListPlacementAllocations(i) == hydrate(i).allocations
ListPlacementDataGaps(i) == hydrate(i).gaps

-----------------------------------------------------------------------------
(* Package: Create, one read after the other. *)

At(c, at) == client[c].at = at

Step(c, next) ==
    /\ client' = [client EXCEPT ![c] = next]
    /\ UNCHANGED <<outside, packs, decided, quantity, field, evals, plans, response, changes>>

Read(c, next, snapshot) == [client[c] EXCEPT !.at = next, !.snapshot = snapshot]

GetDecisionPackageContext(d) == d \in decided

(* The request names a decision; what is packed is the decision in force   *)
(* for its report, with the quantity of the batch.                         *)
GetDecision(c, d, p) ==
    /\ At(c, "idle")
    /\ GetDecisionPackageContext(d)
    /\ GetBatchPolicyDecisionForWorkspace(p)
    /\ tier(p) # "UNDETERMINED"
    /\ Cardinality(packages) < MaxPackages
    /\ Step(c, [at |-> "plan", decision |-> d,
               snapshot |-> [NoSnapshot EXCEPT !.decision = p, !.quantity = quantity]])
    /\ UNCHANGED packages

Packed(c) == client[c].snapshot
TierPacked(c) == tier(Packed(c).decision)

(* placement.Latest, of the decision the request names. *)
ReadPlan(c) ==
    /\ At(c, "plan")
    /\ \/ /\ TierPacked(c) \in {"STANDARD", "ELEVATED"}
          /\ GetLatestPlacementEvaluation(client[c].decision) # None
          /\ Step(c, Read(c, "response", [Packed(c) EXCEPT !.plan = GetLatestPlacementEvaluation(client[c].decision)]))
       \/ /\ TierPacked(c) = "PROHIBITED"
          /\ Step(c, Read(c, "response", Packed(c)))
    /\ UNCHANGED packages

Responded(s) == s \in {"READY", "REVIEW_REQUIRED"}

(* response.Latest: queued, running and failed responses are refused. *)
ReadResponse(c) ==
    /\ At(c, "response")
    /\ \/ /\ TierPacked(c) \in {"ELEVATED", "PROHIBITED"}
          /\ Responded(response[client[c].decision])
          /\ Step(c, Read(c, "evidence",
                  [Packed(c) EXCEPT !.response = response[client[c].decision]]))
       \/ /\ TierPacked(c) = "STANDARD"
          /\ Step(c, Read(c, "evidence", Packed(c)))
    /\ UNCHANGED packages

Planned(s) ==
    IF s.plan = None THEN {}
    ELSE LET fields == ListPlacementFieldResults(s.plan)
         IN {fields[n].evaluation : n \in DOMAIN fields} \ {None}

(* evidence.Get, once for each field of the plan that has an evaluation. *)
ReadEvidence(c) ==
    /\ At(c, "evidence")
    /\ \E i \in Planned(Packed(c)) \ {e.id : e \in Packed(c).physical} :
         LET row == [id |-> i, status |-> evals[i].status,
                     gaps |-> evals[i].critical + evals[i].other]
         IN Step(c, Read(c, "evidence", [Packed(c) EXCEPT !.physical = @ \cup {row}]))
    /\ UNCHANGED packages

-----------------------------------------------------------------------------
(* buildSnapshot, buildProposedActions, packageStatus. *)

SnapshotGaps(s) ==
    (IF s.plan = None THEN {} ELSE ListPlacementDataGaps(s.plan))
      \cup {"PHYSICAL_EVIDENCE" : e \in {x \in s.physical : x.gaps > 0}}
      \cup (IF s.response = "REVIEW_REQUIRED" THEN {"PFAS_RESPONSE"} ELSE {})

packageStatusOfPlan(s) ==
    IF s.plan # None /\ hydrate(s.plan).status # "READY"
    THEN "REVIEW_REQUIRED" ELSE "READY"
packageStatus(s) ==
    IF \/ SnapshotGaps(s) # {}
       \/ s.plan # None /\ hydrate(s.plan).status # "READY"
       \/ s.response # None /\ s.response # "READY"
    THEN "REVIEW_REQUIRED" ELSE "READY"

taskCodes(t) ==
    (IF t = "PROHIBITED"
     THEN {"BLOCK_LAND_APPLICATION", "NOTIFY_EGLE", "ARRANGE_ALTERNATIVE_MANAGEMENT"}
     ELSE {"ENFORCE_RATE_CAP"})
      \cup {"SOURCE_EFFLUENT_SAMPLE", "VERIFY_COLLECTION_SYSTEM", "REVIEW_UPSTREAM_RECORDS",
            "PLAN_TARGETED_SAMPLING"}

responseCodeForRequirement(r) ==
    CASE r = "WRD-NOTIFICATION" -> "NOTIFY_EGLE"
      [] r = "ELEVATED-RATE" -> "ENFORCE_RATE_CAP"
      [] r = "SOURCE-EFFLUENT-30D" -> "SOURCE_EFFLUENT_SAMPLE"
      [] r = "LAND-APPLICATION-PROHIBITED" -> "BLOCK_LAND_APPLICATION"
      [] r = "ALTERNATIVE-MANAGEMENT" -> "ARRANGE_ALTERNATIVE_MANAGEMENT"
      [] OTHER -> r

buildProposedActions(d, s) ==
    LET tasks == IF s.response = None THEN {} ELSE taskCodes(tier(d))
        code(r) == IF responseCodeForRequirement(r) \in tasks
                   THEN responseCodeForRequirement(r) ELSE r
    IN  {code(r) : r \in ListBatchPolicyRequirements(s.decision)}
          \cup tasks
          \cup (IF s.plan = None THEN {}
                ELSE IF hydrate(s.plan).status = "READY" THEN {"REVIEW_DRAFT_ALLOCATION"}
                ELSE {"RESOLVE_PLACEMENT_GAPS"})
          \cup (IF tier(s.decision) = "PROHIBITED" THEN {"BLOCK_LAND_APPLICATION"} ELSE {})

(* UNIQUE (decision_id, input_hash), and the hash names the snapshot: what  *)
(* is stored already is the answer.                                         *)
CreateDecisionPackage(d, s) ==
    packages' = packages \cup
        {[decision |-> d, snapshot |-> s, status |-> packageStatus(s),
          actions |-> buildProposedActions(d, s)]}

Store(c) ==
    /\ At(c, "evidence")
    /\ Planned(Packed(c)) = {e.id : e \in Packed(c).physical}
    /\ CreateDecisionPackage(client[c].decision, Packed(c))
    /\ Step(c, Idle)

(* The request is refused, fails or is lost with its process. *)
Abandon(c) ==
    /\ client[c].at # "idle"
    /\ Step(c, Idle)
    /\ UNCHANGED packages

Next ==
    \/ \E p \in Packs :
         \/ EnsureRulePacks(p) \/ RetirePack(p) \/ Classify(p) \/ RespondTo(p)
         \/ \E q \in Quantities \cup {None} : CreatePlan(p, q)
    \/ \E f \in Fields : ConfirmBoundary(f) \/ UpdateDetails(f) \/ StartEvaluation(f)
    \/ \E i \in DOMAIN evals : \/ \E o \in Outcomes, lost \in BOOLEAN : EndEvaluation(i, o, lost)
                             \/ RecordFailure(i)
    \/ \E c \in Clients :
         \/ \E d, p \in Packs : GetDecision(c, d, p)
         \/ ReadPlan(c) \/ ReadResponse(c) \/ ReadEvidence(c) \/ Store(c) \/ Abandon(c)

Spec == Init /\ [][Next]_vars

-----------------------------------------------------------------------------
(* The rows have their types, and a request has only read what may be read. *)
TypeOK ==
    /\ report \in EvidenceInputs
    /\ packs \in [Packs -> {"ABSENT", "ACTIVE", "RETIRED"}]
    /\ decided \subseteq {p \in Packs : packs[p] # "ABSENT"}
    /\ quantity \in Quantities \cup {None}
    /\ field \in [Fields -> [ready : BOOLEAN, boundary : 1..(MaxChanges + 1)]]
    /\ \A i \in DOMAIN evals : evals[i].field \in Fields /\ evals[i].boundary \in 1..(MaxChanges + 1)
    /\ \A i \in DOMAIN plans : plans[i].decision \in decided
    /\ response \in [Packs -> {"ABSENT", "RUNNING", "READY", "REVIEW_REQUIRED", "FAILED"}]
    /\ \A c \in Clients :
         /\ client[c].at \in {"idle", "plan", "response", "evidence"}
         /\ Packed(c).response \in {None, "READY", "REVIEW_REQUIRED"}
         /\ Packed(c).plan \in {None} \cup DOMAIN plans
    /\ \A k \in packages : k.decision \in decided /\ k.status \in {"READY", "REVIEW_REQUIRED"}

(* The allocations of a plan and what is left of the batch are the batch,   *)
(* to the unit; no field takes more than its room, or twice, or without     *)
(* anything; and a plan is READY only when nothing is left.                 *)
Total(s) ==
    LET sum[i \in 0..Len(s)] == IF i = 0 THEN 0 ELSE sum[i - 1] + s[i].dryTons
    IN sum[Len(s)]

AllocationsConserve ==
    \A i \in DOMAIN plans :
        LET r == hydrate(i)
        IN r.batch # None =>
            /\ Total(r.allocations) + r.unallocated = r.batch
            /\ r.unallocated >= 0
            /\ r.status = "READY" <=> /\ r.unallocated = 0
                                      /\ tier(plans[i].decision) # "PROHIBITED"
            /\ \A k, l \in DOMAIN r.allocations :
                 r.allocations[k].field = r.allocations[l].field => k = l
            /\ \A k \in DOMAIN r.allocations : r.allocations[k].dryTons > 0

(* No field takes more than half a unit (the sixth decimal) above what its  *)
(* acres at the lower of its agronomic rate and the cap of the plan's pack  *)
(* leave after the prior loading, and only a field that was ready.          *)
WithinCapacity ==
    \A i \in DOMAIN plans :
        \A k \in DOMAIN ListPlacementAllocations(i) :
            LET a == ListPlacementAllocations(i)[k]
                in == plans[i].input
                f == in.fields[CHOOSE n \in DOMAIN in.fields : in.fields[n].field = a.field]
                cap == Pack[plans[i].decision].cap
            IN /\ f.status = "READY"
               /\ tier(plans[i].decision) = "ELEVATED" => a.rate <= cap
               /\ a.rate <= f.agronomic
               /\ 2 * Scale * a.dryTons <= 2 * (f.acres * a.rate - f.prior * Scale) + Scale

(* A field is used only when every eligible one with fewer high concerns is *)
(* used up.                                                                 *)
LeastConcernFirst ==
    \A i \in DOMAIN plans :
        LET r == hydrate(i)
            takes(f, amount) ==
                \E n \in DOMAIN r.allocations :
                    r.allocations[n].field = f.field /\ r.allocations[n].dryTons = amount
            used(f) == \E n \in DOMAIN r.allocations : r.allocations[n].field = f.field
        IN \A k, l \in DOMAIN r.fields :
             /\ r.fields[k].disposition = "ELIGIBLE"
             /\ r.fields[k].high < r.fields[l].high
             /\ used(r.fields[l])
             => r.fields[k].capacity = 0 \/ takes(r.fields[k], r.fields[k].capacity)

Detected(name, limit) ==
    \E a \in report.analytes : a.name = name /\ ~a.nonDetect /\ a.value >= limit

(* A package never carries an allocation for a batch in which PFOS or PFOA  *)
(* was found at the prohibited level of the pack in force, or in which one  *)
(* of them is missing, unreadable or non-detect above the elevated level;   *)
(* and then says so: the batch is to be blocked.                            *)
PackageWithinTier ==
    \A k \in packages :
        LET pack == Pack[k.snapshot.decision]
            found == \E n \in Required : Detected(n, pack.prohibited)
            known == \A n \in Required : \E a \in report.analytes :
                        a.name = n /\ IF a.nonDetect THEN Reading(a) \in 0..pack.elevated
                                      ELSE a.value # None
        IN /\ known
           /\ found => k.snapshot.plan = None /\ "BLOCK_LAND_APPLICATION" \in k.actions
           /\ ~found => "BLOCK_LAND_APPLICATION" \notin k.actions \/ tier(k.decision) = "PROHIBITED"

(* What a package allocates rests on evidence that was complete when the    *)
(* plan was made and still is in the package, although it is read again by  *)
(* itself: the field has an evaluation that the plan saw SUCCEEDED, with no *)
(* critical gap, and the package shows the gaps the plan counted with.      *)
(* Only a failure recorded over a lost answer lets it show FAILED instead,  *)
(* which nothing in buildSnapshot or packageStatus looks at.                *)
AllocatedHasEvidence ==
    \A k \in packages : k.snapshot.plan # None =>
        LET p == plans[k.snapshot.plan]
        IN \A n \in DOMAIN p.result.allocations :
             \E m \in DOMAIN p.input.fields, e \in k.snapshot.physical :
                LET a == p.result.allocations[n]
                    in == p.input.fields[m]
                IN /\ in.field = a.field /\ in.evaluation = a.evaluation /\ e.id = a.evaluation
                   /\ in.physicalStatus = "SUCCEEDED" /\ in.critical = 0
                   /\ e.gaps = in.other
                   /\ e.status = "SUCCEEDED" \/ (e.status = "FAILED" /\ evals[e.id].lost)

(* A READY package, whatever changed between its reads: the whole batch is  *)
(* allocated or needs no land, no source left a gap, and the response the   *)
(* tier calls for is there and READY.                                       *)
ReadyIsComplete ==
    \A k \in packages : k.status = "READY" =>
        /\ k.snapshot.plan # None => Total(ListPlacementAllocations(k.snapshot.plan))
                                       = hydrate(k.snapshot.plan).batch
        /\ k.snapshot.plan = None <=> tier(k.snapshot.decision) = "PROHIBITED"
        /\ \A e \in k.snapshot.physical : e.gaps = 0
        /\ k.snapshot.response = "READY" <=> tier(k.snapshot.decision) # "STANDARD"

(* "Physical conditions have not been checked for the confirmed boundary."  *)
(* is why a field without evaluation needs review (evaluateField): a field  *)
(* that is allocated was checked for the boundary confirmed at that time.   *)
AllocatedBoundaryChecked ==
    \A i \in DOMAIN plans :
        \A k \in DOMAIN ListPlacementAllocations(i) :
            LET a == ListPlacementAllocations(i)[k]
            IN evals[a.evaluation].boundary = plans[i].boundary[a.field]

(* The allocations of a plan, exact: they and the rest are the batch, each  *)
(* fits in its field, and fields of least concern come first.               *)
AllocationSound == AllocationsConserve /\ WithinCapacity /\ LeastConcernFirst

(* Packages, plans and requests have their types, and a package is READY    *)
(* only when nothing in it is missing.                                      *)
PackageConsistent == TypeOK /\ ReadyIsComplete
=============================================================================
