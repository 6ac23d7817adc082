---------------------------- MODULE Coordination ----------------------------
(***************************************************************************)
(* Field coordination (internal/coordination/service.go,                   *)
(* db/queries/coordination.sql, migration 00015).  A confirmation or a     *)
(* rejection reads its step without a lock and decides whether the caller  *)
(* may act; it then locks the workflow and updates the step if that is     *)
(* still PENDING.  Between the two anything may commit.                    *)
(***************************************************************************)
EXTENDS Naturals, FiniteSets

CONSTANTS
    Workflows,
    Parties,
    RoleOf,     \* the role of each party: UpdateParty never changes it
    Requests,   \* concurrent ConfirmStep and RejectStep calls
    None

Roles == {"FARMER", "CONTRACTOR", "PLANT"}
Call == [op: {"confirm", "reject"}, workflow: Workflows, role: Roles, by: Parties]

ASSUME PartiesAssumption == RoleOf \in [Parties -> Roles]
ASSUME NoneAssumption == None \notin Parties \cup Call

VARIABLES
    status,     \* of each workflow, "ABSENT" before it is created
    step,       \* status of the step of each role
    party,      \* the party assigned to it
    call        \* what a request asks, once it has read its step

rows == <<status, step, party>>
vars == <<rows, call>>

Status == {"ABSENT", "NOT_STARTED", "FARMER_CONFIRMED", "CONTRACTOR_CONFIRMED",
           "PLANT_CONFIRMED", "REJECTED"}

Init ==
    /\ status = [w \in Workflows |-> "ABSENT"]
    /\ step = [w \in Workflows |-> [r \in Roles |-> "PENDING"]]
    /\ party = [w \in Workflows |-> [r \in Roles |-> None]]
    /\ call = [q \in Requests |-> None]

-----------------------------------------------------------------------------
(* CreateWorkflow inserts the workflow and its steps in one transaction. *)
CreateWorkflow(w) ==
    /\ status[w] = "ABSENT"
    /\ status' = [status EXCEPT ![w] = "NOT_STARTED"]
    /\ UNCHANGED <<step, party, call>>

(* AssignStep: one guarded UPDATE; the workflow is neither locked nor read. *)
MayAssignAgain(w, r, p) ==
    /\ status[w] # "ABSENT"
    /\ RoleOf[p] = r
    /\ step[w][r] = "PENDING"

MayAssign(w, r, p) ==
    /\ status[w] # "ABSENT"
    /\ RoleOf[p] = r
    /\ step[w][r] = "PENDING"
    /\ party[w][r] = None

AssignStep(w, r, p) ==
    /\ MayAssign(w, r, p)
    /\ party' = [party EXCEPT ![w] = [@ EXCEPT ![r] = p]]
    /\ UNCHANGED <<status, step, call>>

(* The unlocked read at the start of ConfirmStep and RejectStep. *)
MayAct(c) ==
    /\ status[c.workflow] # "ABSENT"
    /\ party[c.workflow][c.role] = c.by
    /\ step[c.workflow][c.role] = "PENDING"

ReadStep(q, c) ==
    /\ call[q] = None
    /\ MayAct(c)
    /\ call' = [call EXCEPT ![q] = c]
    /\ UNCHANGED rows

(* nextWorkflowStatus, on the status the lock gave. *)
MayConfirm(w, r) ==
    \/ status[w] = "NOT_STARTED" /\ r = "FARMER"
    \/ status[w] = "FARMER_CONFIRMED" /\ r = "CONTRACTOR"
    \/ status[w] = "CONTRACTOR_CONFIRMED" /\ r = "PLANT"

ConfirmedReady(r) == CASE r = "FARMER" -> "FARMER_CONFIRMED"
                       [] r = "CONTRACTOR" -> "CONTRACTOR_CONFIRMED"
                       [] r = "PLANT" -> "READY"

Confirmed(r) == CASE r = "FARMER" -> "FARMER_CONFIRMED"
                  [] r = "CONTRACTOR" -> "CONTRACTOR_CONFIRMED"
                  [] r = "PLANT" -> "PLANT_CONFIRMED"

(* The UPDATE of the step finds it still PENDING. *)
StillPendingOrNot(w, r) == TRUE
StillPending(w, r) == step[w][r] = "PENDING"

SetStep(w, r, s) == step' = [step EXCEPT ![w] = [@ EXCEPT ![r] = s]]

ConfirmStep(q, w, r, p) ==
    /\ call[q] = [op |-> "confirm", workflow |-> w, role |-> r, by |-> p]
    /\ MayConfirm(w, r)
    /\ StillPending(w, r)
    /\ SetStep(w, r, "CONFIRMED")
    /\ party' = [party EXCEPT ![w] = [@ EXCEPT ![r] = p]]
    /\ status' = [status EXCEPT ![w] = Confirmed(r)]
    /\ call' = [call EXCEPT ![q] = None]

(* The workflow a rejection leaves. *)
RejectNothing(w) == UNCHANGED status
RejectWorkflow(w) == status' = [status EXCEPT ![w] = "REJECTED"]

(* RejectStep takes the lock but not the status of the workflow. *)
RejectStep(q, w, r, p) ==
    /\ call[q] = [op |-> "reject", workflow |-> w, role |-> r, by |-> p]
    /\ StillPending(w, r)
    /\ SetStep(w, r, "REJECTED")
    /\ RejectWorkflow(w)
    /\ call' = [call EXCEPT ![q] = None]
    /\ UNCHANGED party

(* The transaction rolls back: a refusal, or a failure at any statement. *)
RollBack(q) ==
    /\ call[q] # None
    /\ call' = [call EXCEPT ![q] = None]
    /\ UNCHANGED rows

Act(q) ==
    \/ \E c \in Call : ReadStep(q, c)
    \/ \E w \in Workflows, r \in Roles, p \in Parties :
         ConfirmStep(q, w, r, p) \/ RejectStep(q, w, r, p)
    \/ RollBack(q)

Next ==
    \/ \E w \in Workflows : CreateWorkflow(w)
    \/ \E w \in Workflows, r \in Roles, p \in Parties : AssignStep(w, r, p)
    \/ \E q \in Requests : Act(q)

Spec == Init /\ [][Next]_vars

-----------------------------------------------------------------------------
(* Every variable has its type. *)
TypeOK ==
    /\ status \in [Workflows -> Status]
    /\ step \in [Workflows -> [Roles -> {"PENDING", "CONFIRMED", "REJECTED"}]]
    /\ party \in [Workflows -> [Roles -> Parties \cup {None}]]
    /\ call \in [Requests -> Call \cup {None}]

(* The roles whose step is confirmed. *)
Signed(w) == {r \in Roles : step[w][r] = "CONFIRMED"}

SignedBy == [ABSENT |-> {}, NOT_STARTED |-> {},
             FARMER_CONFIRMED |-> {"FARMER"},
             CONTRACTOR_CONFIRMED |-> {"FARMER", "CONTRACTOR"},
             PLANT_CONFIRMED |-> Roles]

(* The status of a workflow, computed from the status it had, never        *)
(* disagrees with its steps, updated by guarded statements of their own:   *)
(* unless it is REJECTED it names exactly the confirmed steps and none is  *)
(* rejected; if it is, some step is.                                       *)
StatusMatchesSteps ==
    \A w \in Workflows :
        IF status[w] = "REJECTED"
        THEN \E r \in Roles : step[w][r] = "REJECTED"
        ELSE /\ Signed(w) = SignedBy[status[w]]
             /\ \A r \in Roles : step[w][r] # "REJECTED"

(* A step was decided by a party of its role, the one assigned to it when  *)
(* it was read: a decided step keeps its party, as an assigned one does.   *)
ActorFixed ==
    [][\A w \in Workflows, r \in Roles :
         party[w][r] # None => party'[w][r] = party[w][r]]_vars

(* No step of a rejected workflow is confirmed any more, whichever          *)
(* confirmations had read their step as pending before the rejection.      *)
RejectionFinal ==
    [][\A w \in Workflows :
         status[w] = "REJECTED" =>
            /\ status'[w] = "REJECTED"
            /\ \A r \in Roles :
                 step[w][r] # "CONFIRMED" => step'[w][r] # "CONFIRMED"]_vars

-----------------------------------------------------------------------------
outcome ==
    [w \in Workflows |->
        CASE status[w] = "ABSENT" -> "absent"
          [] status[w] = "PLANT_CONFIRMED" -> "complete"
          [] status[w] = "REJECTED" -> "rejected"
          [] OTHER -> "open"]

signer ==
    [w \in Workflows |-> [r \in Roles |->
        IF step[w][r] = "CONFIRMED" THEN party[w][r] ELSE None]]

S == INSTANCE SignOff WITH outcome <- outcome, signer <- signer

(* Under concurrent requests the rows implement the sign-off that the      *)
(* README promises: in order, by a party of the role, once, or rejected.   *)
ImplementsSignOff == S!SSpec
=============================================================================
