---------------------------- MODULE ResponseRun ----------------------------
(***************************************************************************)
(* The response to an elevated or prohibited batch                         *)
(* (internal/responseplan, database/db/response.sql.go): the operator      *)
(* confirms where the treatment plant is, a run is queued for the          *)
(* decision, and one job writes its tasks, its evidence from three         *)
(* sources, the leads and the alternatives.  Nothing of the job is a       *)
(* transaction: each statement commits by itself, a retry starts by        *)
(* deleting what the attempt before it wrote, and a page that shows a run  *)
(* reads its tables one after the other while the job writes them.         *)
(*                                                                         *)
(* Left out: workers that outlive the rescue of their job (the context of  *)
(* a job ends after five minutes, its rescue comes an hour later), and     *)
(* the order in which the leads and alternatives are shown.                *)
(***************************************************************************)
EXTENDS River, FiniteSets, Sequences

CONSTANTS
    Decisions,
    Locations,   \* inputs of the lookup of the plant's location
    Facilities,  \* regulated facilities near the plant, the plant included
    Plant,       \* the treatment plant itself, as ECHO lists it
    MaxLeads,    \* leads kept: 10 in the code
    Landfills,
    Workers,
    Readers,     \* pages and package requests that load a run
    MaxAttempts, \* River's default: 25 in the code
    MaxFaults,   \* bound on crashes, failed statements and lost answers
    None

ASSUME PlantAssumption == Plant \in Facilities
ASSUME BoundsAssumption ==
    MaxLeads \in Nat /\ MaxAttempts \in Nat \ {0} /\ MaxFaults \in Nat
ASSUME NoneAssumption == None \notin Decisions \X Locations

\* UNIQUE (decision_id, input_hash), and the hash names decision and location.
Run == Decisions \X Locations
Tier == {"UNDETERMINED", "STANDARD", "ELEVATED", "PROHIBITED"}

VARIABLES
    tier,       \* of each decision, which never changes
    location,   \* facility_location_lookups: what the lookup of an input said
    status,     \* response_runs, "ABSENT" before the insert
    order,      \* the runs in the order of created_at
    out,        \* the rows of each run, a set for each table
    job, worker, reader, faults

rows == <<location, status, order, out>>
vars == <<tier, rows, job, worker, reader, faults>>

Active == {"QUEUED", "RUNNING"}
Ended == {"READY", "REVIEW_REQUIRED", "FAILED"}

Tables == {"tasks", "evidence", "leads", "alternatives", "gaps"}
NoRows == [t \in Tables |-> {}]
Idle == [at |-> "idle", run |-> None, todo |-> <<>>, critical |-> FALSE]
NoPage == [run |-> None, status |-> "ABSENT", left |-> <<>>, out |-> NoRows]

Init ==
    /\ tier \in [Decisions -> Tier]
    /\ location = [l \in Locations |-> "ABSENT"]
    /\ status = [r \in Run |-> "ABSENT"]
    /\ order = <<>>
    /\ out = [r \in Run |-> NoRows]
    /\ job = [r \in Run |-> NoJob]
    /\ worker = [w \in Workers |-> Idle]
    /\ reader = [p \in Readers |-> NoPage]
    /\ faults = 0

-----------------------------------------------------------------------------
(* The location of the plant. *)

(* A lookup that was answered is never asked again, whatever it said. *)
GetFacilityLocationLookupByHash(l) == location[l] # "ABSENT"

(* What the service may say: a place in Michigan, one outside it, or no     *)
(* single place.                                                           *)
CreateFacilityLocationLookup(l, answer) == location' = [location EXCEPT ![l] = answer]

ResolveLocation(l) ==
    /\ ~GetFacilityLocationLookupByHash(l)
    /\ \E answer \in {"michigan", "elsewhere", "unresolved"} :
         CreateFacilityLocationLookup(l, answer)
    /\ UNCHANGED <<tier, status, order, out, job, worker, reader, faults>>

(* The checks of ConfirmLocation, repeated by its UPDATE. *)
ConfirmFacilityLocationLookup(l) ==
    /\ location[l] = "michigan"
    /\ location' = [location EXCEPT ![l] = "confirmed"]

ConfirmLocation(l) ==
    /\ ConfirmFacilityLocationLookup(l)
    /\ UNCHANGED <<tier, status, order, out, job, worker, reader, faults>>

-----------------------------------------------------------------------------
(* Start. *)

GetResponseDecisionContext(d) == tier[d]
GetFacilityLocationLookup(l) == location[l]

(* The run a request is answered with, before it inserts one. *)
GetActiveResponseRun(d) == {r \in Run : r[1] = d /\ status[r] \in Active}

(* ON CONFLICT DO NOTHING: the stored run is the answer of the request. *)
GetResponseRunByInput(r) == status[r] # "ABSENT"

CreateResponseRun(r) ==
    /\ ~GetResponseRunByInput(r)
    /\ status' = [status EXCEPT ![r] = "QUEUED"]
    /\ order' = Append(order, r)

Startable(d, l) ==
    /\ GetResponseDecisionContext(d) \in {"ELEVATED", "PROHIBITED"}
    /\ GetFacilityLocationLookup(l) = "confirmed"
    /\ GetActiveResponseRun(d) = {}

Start(d, l) ==
    /\ Startable(d, l)
    /\ CreateResponseRun(<<d, l>>)
    /\ job' = [job EXCEPT ![<<d, l>>] = Queued]
    /\ UNCHANGED <<tier, location, out, worker, reader, faults>>

-----------------------------------------------------------------------------
(* The rows of a run. *)

(* taskDefinitions *)
taskDefinitions(t) ==
    LET common == <<"SOURCE_EFFLUENT_SAMPLE", "VERIFY_COLLECTION_SYSTEM",
                    "REVIEW_UPSTREAM_RECORDS", "PLAN_TARGETED_SAMPLING">>
    IN IF t = "PROHIBITED"
       THEN <<"BLOCK_LAND_APPLICATION", "NOTIFY_EGLE",
              "ARRANGE_ALTERNATIVE_MANAGEMENT">> \o common
       ELSE <<"ENFORCE_RATE_CAP">> \o common

RowsOf(s) == {s[i] : i \in DOMAIN s}

Insert(r, table, row) == out' = [out EXCEPT ![r][table] = @ \cup {row}]

(* UNIQUE (run_id, registry_id), and the keys of the other tables. *)
Fresh(r, table, row) == row \notin out[r][table]

CreateResponseTask(r, t) == Insert(r, "tasks", t)
CreateInvestigationLead(r, f) == Insert(r, "leads", f)
CreateAlternativeCandidate(r, c) == Insert(r, "alternatives", c)
CreateResponseEvidence(r, kind, s, n) ==
    Insert(r, "evidence", [kind |-> kind, status |-> s, n |-> n])
CreateResponseDataGap(r, code) == Insert(r, "gaps", code)

ClearAllButGaps(r) ==
    out' = [out EXCEPT ![r] = [NoRows EXCEPT !.gaps = out[r].gaps]]
ClearResponseRunOutputs(r) == out' = [out EXCEPT ![r] = NoRows]

-----------------------------------------------------------------------------
(* Process, one statement after the other; what a source answers is folded *)
(* into the statement that stores it.                                      *)

Fetch(w, r) ==
    /\ worker[w] = Idle
    /\ job[r].state = "available"
    /\ job' = [job EXCEPT ![r] = Fetched(@)]
    /\ worker' = [worker EXCEPT ![w] = [Idle EXCEPT !.at = "load", !.run = r]]
    /\ UNCHANGED <<tier, rows, reader, faults>>

At(w, at, r) == worker[w].at = at /\ worker[w].run = r
Become(w, at) == worker' = [worker EXCEPT ![w].at = at]
BecomeWith(w, at, todo) ==
    worker' = [worker EXCEPT ![w].at = at, ![w].todo = todo]
BecomeCritical(w, at) ==
    worker' = [worker EXCEPT ![w].at = at, ![w].critical = TRUE]

Unread == <<tier, location, order, job, reader, faults>>

(* A run that ended is left alone. *)
FinishedUnlessFailed == {"READY", "REVIEW_REQUIRED"}
Finished == {"READY", "REVIEW_REQUIRED", "FAILED"}

GetResponseRunForWork(w, r) ==
    /\ At(w, "load", r)
    /\ Become(w, IF status[r] \in Finished THEN "nil" ELSE "mark")
    /\ UNCHANGED <<status, out, Unread>>

MarkResponseRunRunning(w, r) ==
    /\ At(w, "mark", r)
    /\ status' = [status EXCEPT ![r] = IF @ = "QUEUED" THEN "RUNNING" ELSE @]
    /\ Become(w, "clear")
    /\ UNCHANGED <<out, Unread>>

Clear(w, r) ==
    /\ At(w, "clear", r)
    /\ ClearResponseRunOutputs(r)
    /\ BecomeWith(w, "tasks", taskDefinitions(tier[r[1]]))
    /\ UNCHANGED <<status, Unread>>

(* One row of a list, or on to what follows the list.  A row whose key is  *)
(* taken fails the attempt.                                                *)
InsertList(w, r, at, table, then) ==
    /\ At(w, at, r)
    /\ LET todo == worker[w].todo
       IN \/ todo = <<>> /\ Become(w, then) /\ UNCHANGED out
          \/ /\ todo # <<>>
             /\ ~Fresh(r, table, Head(todo))
             /\ Become(w, "failed")
             /\ UNCHANGED out
          \/ /\ todo # <<>>
             /\ Fresh(r, table, Head(todo))
             /\ \/ table = "tasks" /\ CreateResponseTask(r, Head(todo))
                \/ table = "leads" /\ CreateInvestigationLead(r, Head(todo))
                \/ table = "alternatives" /\ CreateAlternativeCandidate(r, Head(todo))
             /\ BecomeWith(w, at, Tail(todo))
    /\ UNCHANGED <<status, Unread>>

persistTasks(w, r) == InsertList(w, r, "tasks", "tasks", "sewer")

(* collectSewerContext: a partial answer is stored, and is a gap. *)
collectSewerContext(w, r) ==
    /\ \/ /\ At(w, "sewer", r)
          /\ \/ /\ CreateResponseDataGap(r, "SEWER_CONTEXT_UNAVAILABLE")
                /\ BecomeCritical(w, "echo")
             \/ \E s \in {"AVAILABLE", "PARTIAL"} :
                  /\ CreateResponseEvidence(r, "SEWER_CONTEXT", s, 0)
                  /\ Become(w, IF s = "PARTIAL" THEN "partial" ELSE "echo")
       \/ /\ At(w, "partial", r)
          /\ CreateResponseDataGap(r, "SEWER_CONTEXT_PARTIAL")
          /\ BecomeCritical(w, "echo")
    /\ UNCHANGED <<status, Unread>>

(* What ECHO may list: a facility may come twice, on two pages. *)
Listed == UNION {[1..n -> Facilities] : n \in 0..(MaxLeads + 1)}
excludeTreatmentPlant(s) ==
    LET kept[i \in 0..Len(s)] ==
          IF i = 0 THEN <<>>
          ELSE IF s[i] = Plant THEN kept[i - 1] ELSE Append(kept[i - 1], s[i])
    IN kept[Len(s)]
Kept(s) == SubSeq(s, 1, IF Len(s) > MaxLeads THEN MaxLeads ELSE Len(s))

AfterLeads(r) == IF tier[r[1]] = "PROHIBITED" THEN "landfills" ELSE "complete"

collectInvestigationLeads(w, r) ==
    /\ At(w, "echo", r)
    /\ \/ /\ CreateResponseDataGap(r, "ECHO_SCREEN_UNAVAILABLE")
          /\ BecomeCritical(w, AfterLeads(r))
       \/ \E s \in Listed :
            LET leads == Kept(excludeTreatmentPlant(s))
            IN /\ CreateResponseEvidence(r, "POTENTIAL_PFAS_SECTORS", "AVAILABLE", Len(leads))
               /\ BecomeWith(w, "leads", leads)
    /\ UNCHANGED <<status, Unread>>

persistLeads(w, r) == InsertList(w, r, "leads", "leads", AfterLeads(r))

(* collectAlternatives: the inventory, then the routes to what it lists. *)
FetchActiveTypeII(w, r) ==
    /\ At(w, "landfills", r)
    /\ \/ /\ \E code \in {"LANDFILL_INVENTORY_UNAVAILABLE",
                          "NO_VERIFIED_LANDFILL_CANDIDATES"} :
               CreateResponseDataGap(r, code)
          /\ BecomeCritical(w, "complete")
       \/ \E s \in UNION {[1..n -> Landfills] : n \in 1..Cardinality(Landfills)} :
            /\ CreateResponseEvidence(r, "ACTIVE_TYPE_II_LANDFILLS", "AVAILABLE", Len(s))
            /\ BecomeWith(w, "routes", s)
    /\ UNCHANGED <<status, Unread>>

collectAlternatives(w, r) ==
    /\ At(w, "routes", r)
    /\ \/ /\ CreateResponseDataGap(r, "DRIVING_ROUTES_UNAVAILABLE")
          /\ BecomeCritical(w, "alternatives")
       \/ /\ CreateResponseEvidence(r, "ALTERNATIVE_ROUTES", "AVAILABLE", 0)
          /\ Become(w, "alternatives")
    /\ UNCHANGED <<status, Unread>>

persistAlternatives(w, r) ==
    InsertList(w, r, "alternatives", "alternatives", "complete")

(* CompleteResponseRun looks at no status.  Its answer may be lost: the    *)
(* attempt then fails although the run is complete.                        *)
Outcome(w) == IF worker[w].critical THEN "REVIEW_REQUIRED" ELSE "READY"

Answered(w, lost) ==
    \/ Become(w, "nil") /\ UNCHANGED faults
    \/ Become(w, lost) /\ faults < MaxFaults /\ faults' = faults + 1

CompleteResponseRun(w, r) ==
    /\ At(w, "complete", r)
    /\ status' = [status EXCEPT ![r] = Outcome(w)]
    /\ Answered(w, "failed")
    /\ UNCHANGED <<tier, location, order, out, job, reader>>

(* FailResponseRun neither. *)
FailResponseRun(r) == status' = [status EXCEPT ![r] = "FAILED"]

RecordFailure(w, r) ==
    /\ At(w, "failed", r)
    /\ FailResponseRun(r)
    /\ Answered(w, "error")
    /\ UNCHANGED <<tier, location, order, out, job, reader>>

Return(w) ==
    /\ worker[w].at \in {"nil", "error"}
    /\ job' = [job EXCEPT ![worker[w].run] = Settled(@, worker[w].at, MaxAttempts)]
    /\ worker' = [worker EXCEPT ![w] = Idle]
    /\ UNCHANGED <<tier, rows, reader, faults>>

Statement == {"load", "mark", "clear", "tasks", "sewer", "partial", "echo", "leads",
              "landfills", "routes", "alternatives", "complete"}

(* A statement that fails, or whose answer is lost, fails the attempt; if  *)
(* that cannot be recorded either, River is told.                          *)
AfterLostFailureNothing == "nil"
AfterLostFailure == "error"
StatementFails(w) ==
    /\ worker[w].at \in Statement \cup {"failed"}
    /\ faults < MaxFaults
    /\ faults' = faults + 1
    /\ Become(w, IF worker[w].at = "failed" THEN AfterLostFailure ELSE "failed")
    /\ UNCHANGED <<tier, rows, job, reader>>

Crash(w) ==
    /\ worker[w] # Idle
    /\ faults < MaxFaults
    /\ faults' = faults + 1
    /\ worker' = [worker EXCEPT ![w] = Idle]
    /\ UNCHANGED <<tier, rows, job, reader>>

Rescue(r) ==
    /\ job[r].state = "running"
    /\ \A w \in Workers : worker[w].run # r
    /\ job' = [job EXCEPT ![r] = Retried(@, MaxAttempts)]
    /\ UNCHANGED <<tier, rows, worker, reader, faults>>

Process(w, r) ==
    \/ GetResponseRunForWork(w, r)
    \/ MarkResponseRunRunning(w, r)
    \/ Clear(w, r)
    \/ persistTasks(w, r)
    \/ collectSewerContext(w, r)
    \/ collectInvestigationLeads(w, r)
    \/ persistLeads(w, r)
    \/ FetchActiveTypeII(w, r)
    \/ collectAlternatives(w, r)
    \/ persistAlternatives(w, r)
    \/ CompleteResponseRun(w, r)
    \/ RecordFailure(w, r)

-----------------------------------------------------------------------------
(* Get and Latest: the run, then each of its tables.  A page that read the *)
(* run as active, or FAILED, makes no claim about the rows it shows, and   *)
(* no package takes such a run: only the others are followed.              *)

InOrder == <<"tasks", "evidence", "leads", "alternatives", "gaps">>

GetLatestResponseRun(d) ==
    LET mine == {i \in DOMAIN order : order[i][1] = d}
    IN IF mine = {} THEN None
       ELSE order[CHOOSE i \in mine : \A j \in mine : j <= i]

GetResponseRun(p, r) ==
    /\ reader[p] = NoPage
    /\ r # None
    /\ status[r] \in {"READY", "REVIEW_REQUIRED"}
    /\ reader' = [reader EXCEPT ![p] =
         [run |-> r, status |-> status[r], left |-> InOrder, out |-> NoRows]]
    /\ UNCHANGED <<tier, rows, job, worker, faults>>

Latest(p, d) == GetResponseRun(p, GetLatestResponseRun(d))

build(p) ==
    /\ reader[p].left # <<>>
    /\ LET t == Head(reader[p].left)
       IN reader' = [reader EXCEPT ![p].left = Tail(@),
                                   ![p].out[t] = out[reader[p].run][t]]
    /\ UNCHANGED <<tier, rows, job, worker, faults>>

(* The page is shown, or the package is stored, and the request is over. *)
Shown(p) ==
    /\ reader[p].run # None
    /\ reader[p].left = <<>>
    /\ reader' = [reader EXCEPT ![p] = NoPage]
    /\ UNCHANGED <<tier, rows, job, worker, faults>>

-----------------------------------------------------------------------------
Next ==
    \/ \E l \in Locations : ResolveLocation(l) \/ ConfirmLocation(l)
    \/ \E d \in Decisions, l \in Locations : Start(d, l)
    \/ \E w \in Workers :
         \/ \E r \in Run : Fetch(w, r) \/ Process(w, r)
         \/ Return(w)
         \/ StatementFails(w)
         \/ Crash(w)
    \/ \E r \in Run : Rescue(r)
    \/ \E p \in Readers :
         \/ \E r \in Run : GetResponseRun(p, r)
         \/ \E d \in Decisions : Latest(p, d)
         \/ build(p)
         \/ Shown(p)

Spec == Init /\ [][Next]_vars

(* River keeps fetching and rescuing; the client timeouts and the context  *)
(* of the job end every call and statement of a worker.                    *)
Fairness ==
    /\ \A w \in Workers : WF_vars((\E r \in Run : Process(w, r)) \/ Return(w))
    /\ \A r \in Run : /\ WF_vars(\E w \in Workers : Fetch(w, r))
                      /\ WF_vars(Rescue(r))
FairSpec == Spec /\ Fairness

-----------------------------------------------------------------------------
Evidence == [kind: {"SEWER_CONTEXT", "POTENTIAL_PFAS_SECTORS",
                    "ACTIVE_TYPE_II_LANDFILLS", "ALTERNATIVE_ROUTES"},
             status: {"AVAILABLE", "PARTIAL"}, n: Nat]

RowsTyped(o) ==
    /\ o.tasks \subseteq RowsOf(taskDefinitions("PROHIBITED")) \cup RowsOf(taskDefinitions("ELEVATED"))
    /\ o.evidence \subseteq Evidence
    /\ o.leads \subseteq Facilities \ {Plant}
    /\ o.alternatives \subseteq Landfills

(* The rows, the jobs, the workers and the pages have their types. *)
TypeOK ==
    /\ tier \in [Decisions -> Tier]
    /\ location \in [Locations -> {"ABSENT", "michigan", "elsewhere", "unresolved", "confirmed"}]
    /\ status \in [Run -> {"ABSENT"} \cup Active \cup Ended]
    /\ order \in Seq(Run)
    /\ \A r \in Run : RowsTyped(out[r])
    /\ job \in [Run -> JobRow(MaxAttempts)]
    /\ \A p \in Readers : reader[p].run \in Run \cup {None} /\ RowsTyped(reader[p].out)
    /\ faults \in 0..MaxFaults

(* What a complete run rests on: a source was heard or is a gap, never     *)
(* both, and every row an answer announced is there.                       *)
Heard(o, kind, gap) ==
    /\ (gap \cap o.gaps = {}) <=> (\E e \in o.evidence : e.kind = kind)
    /\ Cardinality({e \in o.evidence : e.kind = kind}) <= 1
    /\ Cardinality(gap \cap o.gaps) <= 1

Announced(o, kind) == LET n == {e.n : e \in {x \in o.evidence : x.kind = kind}}
                      IN IF n = {} THEN 0 ELSE CHOOSE m \in n : TRUE

Complete(o, t) ==
    /\ o.tasks = RowsOf(taskDefinitions(t))
    /\ Heard(o, "SEWER_CONTEXT", {"SEWER_CONTEXT_UNAVAILABLE"})
    /\ ("SEWER_CONTEXT_PARTIAL" \in o.gaps) <=>
         (\E e \in o.evidence : e.kind = "SEWER_CONTEXT" /\ e.status = "PARTIAL")
    /\ Heard(o, "POTENTIAL_PFAS_SECTORS", {"ECHO_SCREEN_UNAVAILABLE"})
    /\ Cardinality(o.leads) = Announced(o, "POTENTIAL_PFAS_SECTORS")
    /\ Cardinality(o.alternatives) = Announced(o, "ACTIVE_TYPE_II_LANDFILLS")
    /\ t = "PROHIBITED" =>
         /\ Heard(o, "ACTIVE_TYPE_II_LANDFILLS",
                  {"LANDFILL_INVENTORY_UNAVAILABLE", "NO_VERIFIED_LANDFILL_CANDIDATES"})
         /\ o.alternatives # {} =>
              Heard(o, "ALTERNATIVE_ROUTES", {"DRIVING_ROUTES_UNAVAILABLE"})

(* A page, or a package, that read a run as ended and its tables after     *)
(* that, one by one, holds a complete response of one attempt: READY only  *)
(* without a gap, REVIEW_REQUIRED only with one, whatever retries, rescues *)
(* and lost answers there were (Process and build, without a transaction). *)
ShownIsComplete ==
    \A p \in Readers :
        reader[p].left = <<>> /\ reader[p].status \in {"READY", "REVIEW_REQUIRED"} =>
            /\ Complete(reader[p].out, tier[reader[p].run[1]])
            /\ (reader[p].status = "READY") <=> (reader[p].out.gaps = {})

(* A run that ended keeps its rows; its status only changes when the       *)
(* completion of it was not acknowledged, and then it is FAILED for good.  *)
EndedResponseIsFinal ==
    [][\A r \in Run :
         status[r] \in Ended =>
            /\ out'[r] = out[r]
            /\ status'[r] \in {status[r], "FAILED"}]_vars

(* Every run ends, crashes, failed statements and lost answers included,    *)
(* as long as River has attempts left (25, more than the faults here).     *)
ResponseEnds == \A r \in Run : (status[r] \in Active) ~> (status[r] \in Ended)

(* The rows and the pages have their types, and a page of an ended run      *)
(* shows one complete response.                                             *)
ResponseConsistent == TypeOK /\ ShownIsComplete
=============================================================================
