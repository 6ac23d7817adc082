------------------------- MODULE CoordinationProofs -------------------------
(***************************************************************************)
(* For any workflows, parties and concurrent requests: the status of a     *)
(* workflow agrees with its steps, and the rows implement SignOff.         *)
(*                                                                         *)
(* The steps of a workflow and its status are updated by statements with   *)
(* guards of their own, so StatusMatchesSteps is what makes the guard on   *)
(* the status (MayConfirm) speak about the steps.  The unlocked read is    *)
(* harmless because an assigned party never changes: what MayAct saw of it *)
(* is still true when the request commits (CallFits).                      *)
(***************************************************************************)
EXTENDS Coordination, TLAPS

(* An assigned party has the role of its step, and a decided step has one. *)
PartyFits ==
    \A w \in Workflows, r \in Roles :
        /\ party[w][r] # None => RoleOf[party[w][r]] = r
        /\ step[w][r] # "PENDING" => party[w][r] # None

(* A request past its read speaks of a workflow that exists and for the    *)
(* party its step is assigned to.                                          *)
CallFits ==
    \A q \in Requests :
        call[q] # None =>
            /\ status[call[q].workflow] # "ABSENT"
            /\ party[call[q].workflow][call[q].role] = call[q].by

IInv == TypeOK /\ StatusMatchesSteps /\ PartyFits /\ CallFits

(* The fields of the call of a request past its read. *)
LEMMA CallType ==
    ASSUME TypeOK, NEW q \in Requests, call[q] # None
    PROVE  /\ call[q] \in Call
           /\ call[q].workflow \in Workflows
           /\ call[q].role \in Roles
           /\ call[q].by \in Parties
  BY DEF TypeOK, Call

(* The initial states satisfy the invariant. *)
LEMMA InitInv == Init => IInv
  <1> SUFFICES ASSUME Init PROVE IInv
    OBVIOUS
  <1>1. TypeOK
    BY DEF Init, TypeOK, Status
  <1>2. StatusMatchesSteps
    BY DEF Init, StatusMatchesSteps, Signed, SignedBy
  <1>3. PartyFits /\ CallFits
    BY DEF Init, PartyFits, CallFits
  <1> QED BY <1>1, <1>2, <1>3 DEF IInv

(* A new workflow: its steps are pending and nobody speaks of it yet. *)
LEMMA CreateStep ==
    ASSUME IInv, NEW w \in Workflows, CreateWorkflow(w)
    PROVE  IInv'
  <1> USE DEF IInv, CreateWorkflow
  <1>1. TypeOK'
    BY DEF TypeOK, Status
  <1>2. StatusMatchesSteps'
    <2> SUFFICES ASSUME NEW v \in Workflows
                 PROVE  (IF status[v] = "REJECTED"
                         THEN \E r \in Roles : step[v][r] = "REJECTED"
                         ELSE /\ Signed(v) = SignedBy[status[v]]
                              /\ \A r \in Roles : step[v][r] # "REJECTED")'
      BY DEF StatusMatchesSteps
    <2>1. CASE v = w
      BY <2>1 DEF TypeOK, StatusMatchesSteps, Signed, SignedBy
    <2>2. CASE v # w
      BY <2>2 DEF TypeOK, StatusMatchesSteps, Signed
    <2> QED BY <2>1, <2>2
  <1>3. PartyFits'
    BY DEF PartyFits
  <1>4. CallFits'
    BY CallType DEF CallFits, TypeOK
  <1> QED BY <1>1, <1>2, <1>3, <1>4

(* An assignment touches a step nobody was assigned to, so no request past *)
(* its read speaks for it.                                                 *)
LEMMA AssignmentStep ==
    ASSUME IInv, NEW w \in Workflows, NEW r \in Roles, NEW p \in Parties,
           AssignStep(w, r, p)
    PROVE  IInv'
  <1> USE DEF IInv, AssignStep, MayAssign
  <1>1. TypeOK'
    BY DEF TypeOK
  <1>2. StatusMatchesSteps'
    BY DEF StatusMatchesSteps, Signed
  <1>3. PartyFits'
    BY DEF PartyFits, TypeOK
  <1>4. CallFits'
    <2> SUFFICES ASSUME NEW q \in Requests, call[q] # None
                 PROVE  /\ status[call[q].workflow] # "ABSENT"
                        /\ party'[call[q].workflow][call[q].role] = call[q].by
      BY DEF CallFits
    <2>1. /\ call[q].workflow \in Workflows
          /\ call[q].role \in Roles
          /\ call[q].by \in Parties
      BY CallType
    <2>2. call[q].by # None
      BY <2>1, NoneAssumption
    <2>3. ~(call[q].workflow = w /\ call[q].role = r)
      BY <2>2 DEF CallFits
    <2> QED BY <2>1, <2>3 DEF CallFits, TypeOK
  <1> QED BY <1>1, <1>2, <1>3, <1>4

(* The read of a request establishes what it relies on. *)
LEMMA ReadingStep ==
    ASSUME IInv, NEW q \in Requests, NEW c \in Call, ReadStep(q, c)
    PROVE  IInv'
  <1> USE DEF IInv, ReadStep, MayAct
  <1>1. TypeOK'
    BY DEF TypeOK, rows
  <1>2. StatusMatchesSteps' /\ PartyFits'
    BY DEF StatusMatchesSteps, Signed, PartyFits, rows
  <1>3. CallFits'
    BY DEF CallFits, TypeOK, rows
  <1> QED BY <1>1, <1>2, <1>3

(* A confirmation: the status said which steps are confirmed already. *)
LEMMA ConfirmationStep ==
    ASSUME IInv, NEW q \in Requests, NEW w \in Workflows, NEW r \in Roles,
           NEW p \in Parties, ConfirmStep(q, w, r, p)
    PROVE  IInv'
  <1> USE DEF IInv, ConfirmStep, SetStep
  <1>1. TypeOK'
    BY DEF TypeOK, Status, Confirmed, Roles
  <1>2. party[w][r] = p
    BY NoneAssumption DEF CallFits, Call
  <1>3. party' = party
    BY <1>2 DEF TypeOK
  <1>4. StatusMatchesSteps'
    <2> SUFFICES ASSUME NEW v \in Workflows
                 PROVE  (IF status[v] = "REJECTED"
                         THEN \E s \in Roles : step[v][s] = "REJECTED"
                         ELSE /\ Signed(v) = SignedBy[status[v]]
                              /\ \A s \in Roles : step[v][s] # "REJECTED")'
      BY DEF StatusMatchesSteps
    <2>1. CASE v # w
      BY <2>1 DEF TypeOK, StatusMatchesSteps, Signed
    <2>2. CASE v = w
      <3>1. status'[w] = Confirmed(r) /\ status[w] # "REJECTED"
        BY DEF TypeOK, MayConfirm
      <3>2. \A s \in Roles : step'[w][s] = IF s = r THEN "CONFIRMED" ELSE step[w][s]
        BY DEF TypeOK
      <3>3. /\ Signed(w) = SignedBy[status[w]]
            /\ \A s \in Roles : step[w][s] # "REJECTED"
        BY <3>1 DEF StatusMatchesSteps
      <3>4. Signed(w)' = Signed(w) \cup {r}
        BY <3>2 DEF Signed
      <3>5. SignedBy[Confirmed(r)] = SignedBy[status[w]] \cup {r}
        BY DEF SignedBy, Confirmed, MayConfirm, Roles
      <3>6. status'[w] # "REJECTED"
        BY <3>1 DEF Confirmed, Roles
      <3> QED BY <2>2, <3>1, <3>2, <3>3, <3>4, <3>5, <3>6
    <2> QED BY <2>1, <2>2
  <1>5. PartyFits'
    BY <1>2, <1>3, NoneAssumption DEF PartyFits, TypeOK
  <1>6. CallFits'
    <2> SUFFICES ASSUME NEW o \in Requests, call'[o] # None
                 PROVE  /\ status'[call'[o].workflow] # "ABSENT"
                        /\ party'[call'[o].workflow][call'[o].role] = call'[o].by
      BY DEF CallFits
    <2>1. call'[o] = call[o] /\ call[o] # None
      BY DEF TypeOK
    <2>2. status'[call[o].workflow] # "ABSENT"
      BY <2>1, CallType DEF CallFits, TypeOK, Confirmed, Roles
    <2> QED BY <1>3, <2>1, <2>2 DEF CallFits
  <1> QED BY <1>1, <1>4, <1>5, <1>6

(* A rejection, whatever the status is. *)
LEMMA RejectionStep ==
    ASSUME IInv, NEW q \in Requests, NEW w \in Workflows, NEW r \in Roles,
           NEW p \in Parties, RejectStep(q, w, r, p)
    PROVE  IInv'
  <1> USE DEF IInv, RejectStep, SetStep, RejectWorkflow
  <1>1. TypeOK'
    BY DEF TypeOK, Status
  <1>2. StatusMatchesSteps'
    <2> SUFFICES ASSUME NEW v \in Workflows
                 PROVE  (IF status[v] = "REJECTED"
                         THEN \E s \in Roles : step[v][s] = "REJECTED"
                         ELSE /\ Signed(v) = SignedBy[status[v]]
                              /\ \A s \in Roles : step[v][s] # "REJECTED")'
      BY DEF StatusMatchesSteps
    <2>1. CASE v # w
      BY <2>1 DEF TypeOK, StatusMatchesSteps, Signed
    <2>2. CASE v = w
      <3>1. status'[w] = "REJECTED" /\ step'[w][r] = "REJECTED"
        BY DEF TypeOK
      <3> QED BY <2>2, <3>1
    <2> QED BY <2>1, <2>2
  <1>3. PartyFits'
    BY NoneAssumption DEF PartyFits, TypeOK, CallFits, Call
  <1>4. CallFits'
    <2> SUFFICES ASSUME NEW o \in Requests, call'[o] # None
                 PROVE  /\ status'[call'[o].workflow] # "ABSENT"
                        /\ party'[call'[o].workflow][call'[o].role] = call'[o].by
      BY DEF CallFits
    <2>1. call'[o] = call[o] /\ call[o] # None
      BY DEF TypeOK
    <2>2. status'[call[o].workflow] # "ABSENT"
      BY <2>1, CallType DEF CallFits, TypeOK
    <2> QED BY <2>1, <2>2 DEF CallFits
  <1> QED BY <1>1, <1>2, <1>3, <1>4

(* A rolled back request leaves the rows alone. *)
LEMMA RollingBackStep ==
    ASSUME IInv, NEW q \in Requests, RollBack(q)
    PROVE  IInv'
  BY DEF IInv, RollBack, rows, TypeOK, StatusMatchesSteps, Signed, PartyFits,
         CallFits

(* Every step preserves the invariant. *)
LEMMA NextInv == IInv /\ [Next]_vars => IInv'
  <1> SUFFICES ASSUME IInv, [Next]_vars PROVE IInv'
    OBVIOUS
  <1>1. CASE \E w \in Workflows : CreateWorkflow(w)
    BY <1>1, CreateStep
  <1>2. CASE \E w \in Workflows, r \in Roles, p \in Parties : AssignStep(w, r, p)
    BY <1>2, AssignmentStep
  <1>3. ASSUME NEW q \in Requests, Act(q) PROVE IInv'
    <2>1. CASE \E c \in Call : ReadStep(q, c)
      BY <2>1, ReadingStep
    <2>2. ASSUME NEW w \in Workflows, NEW r \in Roles, NEW p \in Parties,
                 ConfirmStep(q, w, r, p) \/ RejectStep(q, w, r, p)
          PROVE  IInv'
      BY <2>2, ConfirmationStep, RejectionStep
    <2>3. CASE RollBack(q)
      BY <2>3, RollingBackStep
    <2> QED BY <1>3, <2>1, <2>2, <2>3 DEF Act
  <1>4. CASE UNCHANGED vars
    BY <1>4 DEF vars, rows, IInv, TypeOK, StatusMatchesSteps, Signed,
                PartyFits, CallFits
  <1> QED BY <1>1, <1>2, <1>3, <1>4 DEF Next

(* The invariant holds in every reachable state. *)
THEOREM Invariance == Spec => []IInv
  BY InitInv, NextInv, PTL DEF Spec

(* Every variable keeps its type. *)
THEOREM TypeCorrect == Spec => []TypeOK
  BY Invariance, PTL DEF IInv

(* The status of a workflow always agrees with its steps. *)
THEOREM StatusAgrees == Spec => []StatusMatchesSteps
  BY Invariance, PTL DEF IInv

(* The party of a step, once assigned, never changes: a confirmation       *)
(* writes the party it read.                                               *)
THEOREM ActorsFixed == Spec => ActorFixed
  <1>1. ASSUME IInv, [Next]_vars, NEW w \in Workflows, NEW r \in Roles,
               party[w][r] # None
        PROVE  party'[w][r] = party[w][r]
    <2> USE DEF IInv
    <2>1. CASE \E v \in Workflows : CreateWorkflow(v)
      BY <2>1 DEF CreateWorkflow
    <2>2. CASE \E v \in Workflows, s \in Roles, p \in Parties : AssignStep(v, s, p)
      BY <1>1, <2>2 DEF AssignStep, MayAssign, TypeOK
    <2>3. ASSUME NEW q \in Requests, Act(q)
          PROVE  party'[w][r] = party[w][r]
      <3>1. CASE (\E c \in Call : ReadStep(q, c)) \/ RollBack(q)
        BY <3>1 DEF ReadStep, RollBack, rows
      <3>2. ASSUME NEW v \in Workflows, NEW s \in Roles, NEW p \in Parties,
                   ConfirmStep(q, v, s, p)
            PROVE  party'[w][r] = party[w][r]
        BY <1>1, <3>2, NoneAssumption DEF ConfirmStep, CallFits, Call, TypeOK
      <3>3. ASSUME NEW v \in Workflows, NEW s \in Roles, NEW p \in Parties,
                   RejectStep(q, v, s, p)
            PROVE  party'[w][r] = party[w][r]
        BY <3>3 DEF RejectStep
      <3> QED BY <2>3, <3>1, <3>2, <3>3 DEF Act
    <2>4. CASE UNCHANGED vars
      BY <2>4 DEF vars, rows
    <2> QED BY <1>1, <2>1, <2>2, <2>3, <2>4 DEF Next
  <1>2. IInv /\ [Next]_vars =>
          [\A w \in Workflows, r \in Roles :
             party[w][r] # None => party'[w][r] = party[w][r]]_vars
    BY <1>1
  <1> QED BY <1>2, Invariance, PTL DEF Spec, ActorFixed

(* No step of a rejected workflow is confirmed any more. *)
THEOREM RejectionsFinal == Spec => RejectionFinal
  <1>1. ASSUME IInv, [Next]_vars, NEW w \in Workflows, status[w] = "REJECTED"
        PROVE  /\ status'[w] = "REJECTED"
               /\ \A r \in Roles :
                    step[w][r] # "CONFIRMED" => step'[w][r] # "CONFIRMED"
    <2> USE DEF IInv
    <2>1. CASE \E v \in Workflows : CreateWorkflow(v)
      BY <1>1, <2>1 DEF CreateWorkflow, TypeOK
    <2>2. CASE \E v \in Workflows, s \in Roles, p \in Parties : AssignStep(v, s, p)
      BY <1>1, <2>2 DEF AssignStep
    <2>3. ASSUME NEW q \in Requests, Act(q)
          PROVE  /\ status'[w] = "REJECTED"
                 /\ \A r \in Roles :
                      step[w][r] # "CONFIRMED" => step'[w][r] # "CONFIRMED"
      <3>1. CASE (\E c \in Call : ReadStep(q, c)) \/ RollBack(q)
        BY <1>1, <3>1 DEF ReadStep, RollBack, rows
      <3>2. ASSUME NEW v \in Workflows, NEW s \in Roles, NEW p \in Parties,
                   ConfirmStep(q, v, s, p)
            PROVE  /\ status'[w] = "REJECTED"
                   /\ \A r \in Roles :
                        step[w][r] # "CONFIRMED" => step'[w][r] # "CONFIRMED"
        BY <1>1, <3>2 DEF ConfirmStep, MayConfirm, SetStep, TypeOK
      <3>3. ASSUME NEW v \in Workflows, NEW s \in Roles, NEW p \in Parties,
                   RejectStep(q, v, s, p)
            PROVE  /\ status'[w] = "REJECTED"
                   /\ \A r \in Roles :
                        step[w][r] # "CONFIRMED" => step'[w][r] # "CONFIRMED"
        BY <1>1, <3>3 DEF RejectStep, RejectWorkflow, SetStep, TypeOK
      <3> QED BY <2>3, <3>1, <3>2, <3>3 DEF Act
    <2>4. CASE UNCHANGED vars
      BY <1>1, <2>4 DEF vars, rows
    <2> QED BY <1>1, <2>1, <2>2, <2>3, <2>4 DEF Next
  <1>2. IInv /\ [Next]_vars =>
          [\A w \in Workflows :
             status[w] = "REJECTED" =>
               /\ status'[w] = "REJECTED"
               /\ \A r \in Roles :
                    step[w][r] # "CONFIRMED" => step'[w][r] # "CONFIRMED"]_vars
    BY <1>1
  <1> QED BY <1>2, Invariance, PTL DEF Spec, RejectionFinal

-----------------------------------------------------------------------------
(* A workflow that is created begins. *)
LEMMA CreateBegins ==
    ASSUME IInv, NEW w \in Workflows, CreateWorkflow(w)
    PROVE  S!Begin(w)
  <1> USE DEF CreateWorkflow
  <1>1. outcome[w] = "absent"
    BY DEF outcome
  <1>2. outcome' = [outcome EXCEPT ![w] = "open"]
    BY DEF outcome, IInv, TypeOK
  <1>3. UNCHANGED signer
    BY DEF signer
  <1> QED BY <1>1, <1>2, <1>3 DEF S!Begin

(* A confirmation is the signature of the assigned party, in its turn. *)
LEMMA ConfirmSigns ==
    ASSUME IInv, NEW q \in Requests, NEW w \in Workflows, NEW r \in Roles,
           NEW p \in Parties, ConfirmStep(q, w, r, p)
    PROVE  S!Sign(w, r, p)
  <1> USE DEF IInv, ConfirmStep, SetStep
  <1>1. outcome[w] = "open"
    BY DEF outcome, MayConfirm
  <1>2. p # None /\ party[w][r] = p
    BY NoneAssumption DEF CallFits, Call
  <1>3. RoleOf[p] = r
    BY <1>2 DEF PartyFits
  <1>4. signer[w][r] = None
    BY DEF signer, StillPending
  <1>5. \A s \in S!Before(r) : signer[w][s] # None
    <2>1. Signed(w) = S!Before(r)
      BY DEF StatusMatchesSteps, MayConfirm, SignedBy, S!Before
    <2>2. ASSUME NEW s \in S!Before(r) PROVE signer[w][s] # None
      <3>1. s \in Roles /\ step[w][s] = "CONFIRMED"
        BY <2>1 DEF Signed
      <3>2. party[w][s] # None
        BY <3>1 DEF PartyFits
      <3> QED BY <3>1, <3>2 DEF signer
    <2> QED BY <2>2
  <1>6. signer' = [signer EXCEPT ![w] = [@ EXCEPT ![r] = p]]
    BY DEF signer, TypeOK
  <1>7. outcome' = [outcome EXCEPT ![w] = IF r = "PLANT" THEN "complete" ELSE "open"]
    BY DEF outcome, TypeOK, Confirmed, Roles
  <1> QED BY <1>1, <1>3, <1>4, <1>5, <1>6, <1>7 DEF S!Sign

(* A rejection rejects an open workflow, or finds it rejected already. *)
LEMMA RejectRejects ==
    ASSUME IInv, NEW q \in Requests, NEW w \in Workflows, NEW r \in Roles,
           NEW p \in Parties, RejectStep(q, w, r, p)
    PROVE  S!Reject(w) \/ UNCHANGED S!svars
  <1> USE DEF IInv, RejectStep, SetStep, RejectWorkflow
  <1>1. UNCHANGED signer
    BY DEF signer, TypeOK, StillPending
  <1>2. status[w] \notin {"ABSENT", "PLANT_CONFIRMED"}
    <2>1. status[w] # "ABSENT"
      BY NoneAssumption DEF CallFits, Call
    <2>2. r \notin Signed(w)
      BY DEF StillPending, Signed
    <2>3. status[w] = "PLANT_CONFIRMED" => Signed(w) = Roles
      BY DEF StatusMatchesSteps, SignedBy
    <2> QED BY <2>1, <2>2, <2>3
  <1>3. CASE status[w] = "REJECTED"
    <2>1. UNCHANGED status
      BY <1>3 DEF TypeOK
    <2> QED BY <1>1, <2>1 DEF outcome, S!svars
  <1>4. CASE status[w] # "REJECTED"
    <2>1. outcome[w] = "open"
      BY <1>2, <1>4 DEF outcome
    <2>2. outcome' = [outcome EXCEPT ![w] = "rejected"]
      BY DEF outcome, TypeOK
    <2> QED BY <1>1, <2>1, <2>2 DEF S!Reject
  <1> QED BY <1>3, <1>4

(* An assignment is invisible: the step it touches is pending. *)
LEMMA AssignIsInvisible ==
    ASSUME IInv, NEW w \in Workflows, NEW r \in Roles, NEW p \in Parties,
           AssignStep(w, r, p)
    PROVE  UNCHANGED S!svars
  <1>1. UNCHANGED outcome
    BY DEF AssignStep, outcome
  <1>2. UNCHANGED signer
    BY DEF AssignStep, MayAssign, signer, IInv, TypeOK
  <1> QED BY <1>1, <1>2 DEF S!svars

(* Whatever leaves the rows alone is invisible. *)
LEMMA RowsVisible ==
    ASSUME UNCHANGED rows
    PROVE  UNCHANGED S!svars
  BY DEF rows, outcome, signer, S!svars

(* Coordination implements SignOff: in order, by a party of the role, once *)
(* each, or rejected.                                                      *)
THEOREM SignOffImplemented == Spec => ImplementsSignOff
  <1>1. Init => S!SInit
    <2> SUFFICES ASSUME Init PROVE S!SInit
      OBVIOUS
    <2>1. outcome = [w \in Workflows |-> "absent"]
      BY DEF Init, outcome
    <2>2. signer = [w \in Workflows |-> [r \in Roles |-> None]]
      BY DEF Init, signer
    <2> QED BY <2>1, <2>2 DEF S!SInit, S!Roles, Roles
  <1>2. ASSUME IInv, [Next]_vars PROVE [S!SNext]_S!svars
    <2>1. CASE \E w \in Workflows : CreateWorkflow(w)
      BY <1>2, <2>1, CreateBegins DEF S!SNext
    <2>2. CASE \E w \in Workflows, r \in Roles, p \in Parties : AssignStep(w, r, p)
      BY <1>2, <2>2, AssignIsInvisible
    <2>3. ASSUME NEW q \in Requests, Act(q) PROVE [S!SNext]_S!svars
      <3>1. CASE (\E c \in Call : ReadStep(q, c)) \/ RollBack(q)
        BY <3>1, RowsVisible DEF ReadStep, RollBack
      <3>2. ASSUME NEW w \in Workflows, NEW r \in Roles, NEW p \in Parties,
                   ConfirmStep(q, w, r, p)
            PROVE  [S!SNext]_S!svars
        BY <1>2, <3>2, ConfirmSigns DEF S!SNext, S!Roles, Roles
      <3>3. ASSUME NEW w \in Workflows, NEW r \in Roles, NEW p \in Parties,
                   RejectStep(q, w, r, p)
            PROVE  [S!SNext]_S!svars
        BY <1>2, <3>3, RejectRejects DEF S!SNext
      <3> QED BY <2>3, <3>1, <3>2, <3>3 DEF Act
    <2>4. CASE UNCHANGED vars
      BY <2>4, RowsVisible DEF vars
    <2> QED BY <1>2, <2>1, <2>2, <2>3, <2>4 DEF Next
  <1> QED BY <1>1, <1>2, Invariance, PTL DEF Spec, ImplementsSignOff, S!SSpec
=============================================================================
