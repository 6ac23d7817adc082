-------------------------- MODULE ActionCenterProofs --------------------------
(***************************************************************************)
(* Proofs about ActionCenter, for every set of packages, codes, plans,     *)
(* payloads, requests and keys, and every bound on the revisions.          *)
(***************************************************************************)
EXTENDS ActionCenter, TLAPS

(* The lock of an action and the transaction that holds it name each       *)
(* other; under the lock what MayExecute read stays true, except that the  *)
(* plan is still to be released; a key that was found stays in the table.  *)
LockInv ==
    /\ \A a \in Action : lock[a] # None =>
         pc[lock[a]] = "locked" /\ call[lock[a]].action = a
    /\ \A r \in Requests : pc[r] = "locked" =>
         LET a == call[r].action IN
         /\ lock[a] = r
         /\ status[a] = "APPROVED"
         /\ Mode(a) # "CONTROL"
         /\ Mode(a) = "INTERNAL_RELEASE" => Plan(a) # None
    /\ \A r \in Requests : pc[r] = "replay" =>
         execution[call[r].action][call[r].key] # None

(* An action that is APPROVED carries the approval of its revision. *)
ApprovedInv ==
    \A a \in Action : status[a] = "APPROVED" =>
        /\ CurrentApproval(a)
        /\ decision[a][revision[a]].seen = payload[a]
        /\ payload[a] \in Addressed
        /\ GapsAllow(a, decision[a][revision[a]].acknowledged)

IInv ==
    /\ TypeOK
    /\ LockInv
    /\ ApprovedInv
    /\ OneExecution
    /\ ExecutedIsApproved
    /\ ReleaseMatchesExecution
    /\ AnswerIsStored

-----------------------------------------------------------------------------
(* A call under way has an action and a key. *)
LEMMA CallType ==
    ASSUME TypeOK, NEW r \in Requests, pc[r] # "idle"
    PROVE  call[r] \in Call /\ call[r].action \in Action /\ call[r].key \in Keys
BY DEF TypeOK, Call

(* Every step keeps the types. *)
LEMMA TypeStep == TypeOK /\ [Next]_vars => TypeOK'
<1> SUFFICES ASSUME TypeOK, [Next]_vars PROVE TypeOK'
  OBVIOUS
<1> USE CodesAssumption, PayloadsAssumption, RevisionAssumption,
        SnapshotsAssumption DEF TypeOK
<1>1. ASSUME NEW a \in Action, Ensure(a) PROVE TypeOK'
  BY <1>1 DEF Ensure, Status
<1>2. ASSUME NEW a \in Action, NEW p \in Payloads, UpdatePayload(a, p)
      PROVE TypeOK'
  BY <1>2 DEF UpdatePayload, Status
<1>3. ASSUME NEW a \in Action, NEW kind \in {"APPROVED", "REJECTED"},
             NEW seen \in Payloads, NEW ack \in BOOLEAN, Decide(a, kind, seen, ack)
      PROVE TypeOK'
  <2>1. [kind |-> kind, payload |-> payload[a], seen |-> seen,
         acknowledged |-> kind = "APPROVED" /\ ack]
          \in Decision
    BY DEF Decision
  <2>2. decision' \in [Action -> [1..MaxRevision -> Decision \cup {None}]]
    BY <1>3, <2>1 DEF Decide
  <2>3. QED
    BY <1>3, <2>2 DEF Decide, Status
<1>4. ASSUME NEW r \in Requests, NEW a \in Action, NEW k \in Keys,
             ExecuteLookup(r, a, k)
      PROVE TypeOK'
  <2>1. [action |-> a, key |-> k] \in Call /\ [action |-> a, key |-> k] # None
    BY NoneAssumption DEF Call
  <2>2. QED
    BY <1>4, <2>1 DEF ExecuteLookup, rows
<1>5. ASSUME NEW r \in Requests, ExecuteReplay(r) PROVE TypeOK'
  <2>1. call[r] # None /\ call[r].key \in Keys
    BY <1>5, CallType DEF ExecuteReplay
  <2>2. QED
    BY <1>5, <2>1 DEF ExecuteReplay, Answer, rows
<1>6. ASSUME NEW r \in Requests, ExecuteLock(r) PROVE TypeOK'
  <2>1. PICK a \in Action : pc[r] = "acquire" /\ LockRow(r, a)
    BY <1>6, CallType DEF ExecuteLock
  <2>2. ASSUME NEW k \in Keys, Answer(r, k), UNCHANGED lock PROVE TypeOK'
    BY <2>1, <2>2 DEF Answer, rows
  <2>3. CASE Refuse(r) /\ UNCHANGED lock
    BY <2>3 DEF Refuse, rows
  <2>4. CASE /\ lock' = [lock EXCEPT ![a] = r]
             /\ pc' = [pc EXCEPT ![r] = "locked"]
             /\ UNCHANGED <<rows, call, reply>>
    BY <2>1, <2>4 DEF rows
  <2>5. QED
    BY <2>1, <2>2, <2>3, <2>4 DEF LockRow, Answer
<1>7. ASSUME NEW r \in Requests, ExecuteCommit(r) PROVE TypeOK'
  <2>1. PICK a \in Action, k \in Keys :
          /\ pc[r] = "locked"
          /\ StoreExecution(r, a, k) \/ RollBack(r, a, k)
    BY <1>7, CallType DEF ExecuteCommit
  <2>2. CASE StoreExecution(r, a, k)
    <3>1. [revision |-> revision[a], payload |-> payload[a]] \in Execution
      BY DEF Execution
    <3>2. execution' \in [Action -> [Keys -> Execution \cup {None}]]
      BY <2>2, <3>1 DEF StoreExecution
    <3>3. release' \in [Plans -> Action \cup {None}]
      BY <2>2 DEF StoreExecution
    <3>4. QED
      BY <2>1, <2>2, <3>2, <3>3 DEF StoreExecution, Status
  <2>3. CASE RollBack(r, a, k)
    BY <2>1, <2>3 DEF RollBack, Refuse, rows
  <2>4. QED
    BY <2>1, <2>2, <2>3
<1>8. ASSUME NEW r \in Requests, ExecuteAbort(r) PROVE TypeOK'
  BY <1>8 DEF ExecuteAbort, rows
<1>9. ASSUME NEW r \in Requests, ExecuteDone(r) PROVE TypeOK'
  BY <1>9 DEF ExecuteDone, rows
<1>10. CASE UNCHANGED vars
  BY <1>10 DEF vars, rows
<1> HIDE DEF TypeOK
<1>11. QED
  BY <1>1, <1>2, <1>3, <1>4, <1>5, <1>6, <1>7, <1>8, <1>9, <1>10 DEF Next

-----------------------------------------------------------------------------
(* Every action keeps the inductive invariant. *)
LEMMA EnsureStep ==
    ASSUME IInv, NEW a \in Action, Ensure(a)
    PROVE  IInv'
<1> USE DEF IInv
<1>0. TypeOK'
  BY TypeStep DEF Next
<1>1. LockInv'
  BY <1>0, NoneAssumption DEF TypeOK, LockInv, Mode, Plan, Ensure
<1>2. ApprovedInv'
  BY <1>0, NoneAssumption DEF TypeOK, ApprovedInv, CurrentApproval, GapsAllow, Ensure
<1>3. OneExecution'
  BY <1>0, NoneAssumption DEF TypeOK, OneExecution, Ensure
<1>4. ExecutedIsApproved'
  BY <1>0, NoneAssumption DEF TypeOK, ExecutedIsApproved, CurrentApproval, GapsAllow, Ensure
<1>5. ReleaseMatchesExecution'
  BY <1>0, NoneAssumption DEF TypeOK, ReleaseMatchesExecution, Executed, Plan, Mode, Ensure
<1>6. AnswerIsStored'
  BY <1>0, NoneAssumption DEF TypeOK, AnswerIsStored, Ensure
<1>7. QED
  BY <1>0, <1>1, <1>2, <1>3, <1>4, <1>5, <1>6

LEMMA UpdatePayloadStep ==
    ASSUME IInv, NEW a \in Action, NEW p \in Payloads, UpdatePayload(a, p)
    PROVE  IInv'
<1> USE DEF IInv
<1>0. TypeOK'
  BY TypeStep DEF Next
<1>1. LockInv'
  BY <1>0, NoneAssumption DEF TypeOK, LockInv, Mode, Plan, UpdatePayload, Open
<1>2. ApprovedInv'
  BY <1>0, NoneAssumption DEF TypeOK, ApprovedInv, CurrentApproval, GapsAllow, UpdatePayload, Open
<1>3. OneExecution'
  BY <1>0, NoneAssumption DEF TypeOK, OneExecution, UpdatePayload, Open
<1>4. ExecutedIsApproved'
  <2> SUFFICES ASSUME NEW b \in Action, NEW k \in Keys, execution[b][k] # None
               PROVE  ExecutedIsApproved!(b, k)'
    BY DEF ExecutedIsApproved, UpdatePayload
  <2>1. b # a
    BY DEF ExecutedIsApproved, UpdatePayload, Open
  <2>2. QED
    BY <2>1 DEF TypeOK, ExecutedIsApproved, CurrentApproval, GapsAllow, UpdatePayload
<1>5. ReleaseMatchesExecution'
  BY <1>0, NoneAssumption DEF TypeOK, ReleaseMatchesExecution, Executed, Plan, Mode, UpdatePayload, Open
<1>6. AnswerIsStored'
  BY <1>0, NoneAssumption DEF TypeOK, AnswerIsStored, UpdatePayload, Open
<1>7. QED
  BY <1>0, <1>1, <1>2, <1>3, <1>4, <1>5, <1>6

LEMMA DecideStep ==
    ASSUME IInv, NEW a \in Action, NEW kind \in {"APPROVED", "REJECTED"},
           NEW seen \in Payloads, NEW ack \in BOOLEAN, Decide(a, kind, seen, ack)
    PROVE  IInv'
<1> USE DEF IInv
<1>0. TypeOK'
  BY TypeStep DEF Next
<1>1. LockInv'
  BY <1>0, NoneAssumption DEF TypeOK, LockInv, Mode, Plan, Decide, Reviewable, Open, Undecided
<1>2. ApprovedInv'
  <2> SUFFICES ASSUME NEW b \in Action, status'[b] = "APPROVED"
               PROVE  ApprovedInv!(b)'
    BY DEF ApprovedInv
  <2> DEFINE d == [kind |-> kind, payload |-> payload[a], seen |-> seen,
                   acknowledged |-> kind = "APPROVED" /\ ack]
  <2>1. CASE b = a
    <3>1. decision'[a][revision[a]] = d
      BY DEF TypeOK, Decide
    <3>2. kind = "APPROVED"
      BY <2>1 DEF TypeOK, Decide
    <3>3. d # None
      <4>1. d \in Decision
        BY DEF Decision, TypeOK
      <4>2. QED
        BY <4>1, NoneAssumption
    <3>4. QED
      BY <2>1, <3>1, <3>2, <3>3
      DEF TypeOK, Decide, Reviewable, CurrentApproval, GapsAllow
  <2>2. CASE b # a
    BY <2>2 DEF TypeOK, ApprovedInv, CurrentApproval, GapsAllow, Decide
  <2>3. QED
    BY <2>1, <2>2
<1>3. OneExecution'
  BY <1>0, NoneAssumption DEF TypeOK, OneExecution, Decide, Reviewable, Open, Undecided
<1>4. ExecutedIsApproved'
  BY <1>0, NoneAssumption DEF TypeOK, ExecutedIsApproved, CurrentApproval, GapsAllow, Decide, Reviewable, Open, Undecided
<1>5. ReleaseMatchesExecution'
  BY <1>0, NoneAssumption DEF TypeOK, ReleaseMatchesExecution, Executed, Plan, Mode, Decide, Reviewable, Open, Undecided
<1>6. AnswerIsStored'
  BY <1>0, NoneAssumption DEF TypeOK, AnswerIsStored, Decide, Reviewable, Open, Undecided
<1>7. QED
  BY <1>0, <1>1, <1>2, <1>3, <1>4, <1>5, <1>6

LEMMA ExecuteLookupStep ==
    ASSUME IInv, NEW r \in Requests, NEW a \in Action, NEW k \in Keys, ExecuteLookup(r, a, k)
    PROVE  IInv'
<1> USE DEF IInv
<1>0. TypeOK'
  BY TypeStep DEF Next
<1>1. LockInv'
  BY <1>0, NoneAssumption DEF TypeOK, LockInv, Mode, Plan, ExecuteLookup, rows
<1>2. ApprovedInv'
  BY <1>0, NoneAssumption DEF TypeOK, ApprovedInv, CurrentApproval, GapsAllow, ExecuteLookup, rows
<1>3. OneExecution'
  BY <1>0, NoneAssumption DEF TypeOK, OneExecution, ExecuteLookup, rows
<1>4. ExecutedIsApproved'
  BY <1>0, NoneAssumption DEF TypeOK, ExecutedIsApproved, CurrentApproval, GapsAllow, ExecuteLookup, rows
<1>5. ReleaseMatchesExecution'
  BY <1>0, NoneAssumption DEF TypeOK, ReleaseMatchesExecution, Executed, Plan, Mode, ExecuteLookup, rows
<1>6. AnswerIsStored'
  BY <1>0, NoneAssumption DEF TypeOK, AnswerIsStored, ExecuteLookup, rows
<1>7. QED
  BY <1>0, <1>1, <1>2, <1>3, <1>4, <1>5, <1>6

LEMMA ExecuteReplayStep ==
    ASSUME IInv, NEW r \in Requests, ExecuteReplay(r)
    PROVE  IInv'
<1> USE DEF IInv
<1>0. TypeOK'
  BY TypeStep DEF Next
<1>1. LockInv'
  BY <1>0, NoneAssumption DEF TypeOK, LockInv, Mode, Plan, ExecuteReplay, Answer, rows
<1>2. ApprovedInv'
  BY <1>0, NoneAssumption DEF TypeOK, ApprovedInv, CurrentApproval, GapsAllow, ExecuteReplay, Answer, rows
<1>3. OneExecution'
  BY <1>0, NoneAssumption DEF TypeOK, OneExecution, ExecuteReplay, Answer, rows
<1>4. ExecutedIsApproved'
  BY <1>0, NoneAssumption DEF TypeOK, ExecutedIsApproved, CurrentApproval, GapsAllow, ExecuteReplay, Answer, rows
<1>5. ReleaseMatchesExecution'
  BY <1>0, NoneAssumption DEF TypeOK, ReleaseMatchesExecution, Executed, Plan, Mode, ExecuteReplay, Answer, rows
<1>6. AnswerIsStored'
  <2>1. call[r].key # None /\ execution[call[r].action][call[r].key] # None
    BY CallType, NoneAssumption DEF LockInv, ExecuteReplay
  <2>2. QED
    BY <2>1 DEF TypeOK, AnswerIsStored, ExecuteReplay, Answer, rows
<1>7. QED
  BY <1>0, <1>1, <1>2, <1>3, <1>4, <1>5, <1>6

LEMMA ExecuteLockStep ==
    ASSUME IInv, NEW r \in Requests, ExecuteLock(r)
    PROVE  IInv'
<1> USE DEF IInv
<1>0. TypeOK'
  BY TypeStep DEF Next
<1>1. PICK a \in Action : call[r].action = a /\ pc[r] = "acquire" /\ LockRow(r, a)
  BY CallType DEF ExecuteLock
<1>2. UNCHANGED rows
  BY <1>1 DEF LockRow, Answer, Refuse
<1>3. LockInv'
  <2>1. CASE /\ MayExecute(a)
             /\ lock' = [lock EXCEPT ![a] = r]
             /\ pc' = [pc EXCEPT ![r] = "locked"]
             /\ UNCHANGED <<rows, call, reply>>
    BY <1>0, <1>1, <2>1, NoneAssumption
    DEF TypeOK, LockInv, Mode, Plan, LockRow, MayExecute, Releasable, rows
  <2>2. ASSUME NEW k \in Keys, Answer(r, k) PROVE LockInv'
    BY <1>0, <1>1, <2>2 DEF TypeOK, LockInv, Mode, Plan, Answer, rows
  <2>3. CASE Refuse(r) /\ UNCHANGED lock
    BY <1>0, <1>1, <2>3 DEF TypeOK, LockInv, Mode, Plan, Refuse, rows
  <2>4. QED
    BY <1>1, <2>1, <2>2, <2>3 DEF LockRow
<1>4. ApprovedInv' /\ OneExecution' /\ ExecutedIsApproved'
  BY <1>2 DEF rows, ApprovedInv, OneExecution, ExecutedIsApproved,
              CurrentApproval, GapsAllow
<1>5. ReleaseMatchesExecution'
  BY <1>2 DEF rows, ReleaseMatchesExecution, Executed, Plan, Mode
<1>6. AnswerIsStored'
  <2>1. ASSUME NEW k \in Keys, execution[a][k] # None, Answer(r, k)
        PROVE  AnswerIsStored'
    BY <1>1, <2>1, NoneAssumption DEF TypeOK, AnswerIsStored, Answer, rows
  <2>2. CASE UNCHANGED <<call, reply>> /\ pc' = [pc EXCEPT ![r] = "locked"]
    BY <1>2, <2>2 DEF TypeOK, AnswerIsStored, rows
  <2>3. CASE Refuse(r)
    BY <1>2, <2>3 DEF TypeOK, AnswerIsStored, Refuse, rows
  <2>4. QED
    BY <1>1, <2>1, <2>2, <2>3 DEF LockRow
<1>7. QED
  BY <1>0, <1>3, <1>4, <1>5, <1>6

(* The commit of an execution, the step the invariant is for. *)
LEMMA StoreExecutionStep ==
    ASSUME IInv, TypeOK', NEW r \in Requests, NEW a \in Action, NEW k \in Keys,
           pc[r] = "locked", call[r].action = a, call[r].key = k,
           StoreExecution(r, a, k)
    PROVE  IInv'
<1> USE DEF IInv
<1> DEFINE e == [revision |-> revision[a], payload |-> payload[a]]
<1>1. e # None
  BY NoneAssumption DEF TypeOK, Execution
<1>2. /\ lock[a] = r /\ status[a] = "APPROVED" /\ Mode(a) # "CONTROL"
      /\ Mode(a) = "INTERNAL_RELEASE" => Plan(a) # None
  BY DEF LockInv
<1>3. \A k1 \in Keys : execution[a][k1] = None
  BY <1>2 DEF ExecutedIsApproved
<1>4. /\ execution'[a][k] = e
      /\ \A k1 \in Keys \ {k} : execution'[a][k1] = None
      /\ \A b \in Action \ {a} : execution'[b] = execution[b]
  BY <1>3 DEF StoreExecution, TypeOK
<1> HIDE DEF e
<1>5. LockInv'
  <2>1. \A q \in Requests : pc[q] = "locked" /\ q # r => call[q].action # a
    BY <1>2 DEF LockInv
  <2>2. \A b \in Action : lock'[b] # None =>
          pc'[lock'[b]] = "locked" /\ call'[lock'[b]].action = b
    BY <1>2 DEF LockInv, StoreExecution, TypeOK
  <2>3. ASSUME NEW q \in Requests, pc'[q] = "locked"
        PROVE  /\ lock'[call'[q].action] = q
               /\ status'[call'[q].action] = "APPROVED"
               /\ Mode(call[q].action)' # "CONTROL"
               /\ Mode(call[q].action)' = "INTERNAL_RELEASE" =>
                    Plan(call[q].action)' # None
    <3>1. pc[q] = "locked" /\ q # r
      BY <2>3 DEF StoreExecution, TypeOK
    <3>2. call[q].action \in Action
      BY <3>1, CallType
    <3>3. QED
      BY <2>1, <3>1, <3>2 DEF LockInv, StoreExecution, TypeOK, Plan, Mode
  <2>4. ASSUME NEW q \in Requests, pc'[q] = "replay"
        PROVE  execution'[call'[q].action][call'[q].key] # None
    <3>1. pc[q] = "replay" /\ q # r
      BY <2>4 DEF StoreExecution, TypeOK
    <3>2. call[q].action \in Action /\ call[q].key \in Keys
      BY <3>1, CallType
    <3>3. QED
      BY <1>1, <1>3, <1>4, <3>1, <3>2 DEF LockInv, StoreExecution
  <2>5. QED
    BY <2>2, <2>3, <2>4 DEF LockInv, Mode
<1>6. ApprovedInv'
  BY DEF ApprovedInv, CurrentApproval, GapsAllow, StoreExecution, TypeOK
<1>7. OneExecution'
  BY <1>4 DEF OneExecution
<1>8. ExecutedIsApproved'
  <2>1. ASSUME NEW b \in Action \ {a}, NEW k1 \in Keys
        PROVE  ExecutedIsApproved!(b, k1)'
    BY <1>4, <2>1 DEF ExecutedIsApproved, CurrentApproval, GapsAllow,
                      StoreExecution, TypeOK
  <2>2. ASSUME NEW k1 \in Keys PROVE ExecutedIsApproved!(a, k1)'
    BY <1>2, <1>4 DEF e, ApprovedInv, CurrentApproval, GapsAllow,
                      StoreExecution, TypeOK
  <2>3. QED
    BY <2>1, <2>2 DEF ExecutedIsApproved
<1>9. ReleaseMatchesExecution'
  <2>1. Executed(a)' /\ ~Executed(a)
    BY <1>1, <1>3, <1>4 DEF Executed
  <2>2. \A b \in Action \ {a} : Executed(b)' <=> Executed(b)
    BY <1>4 DEF Executed
  <2>3. \A b \in Action : Plan(b)' = Plan(b)
    BY DEF Plan, StoreExecution
  <2>4. CASE Mode(a) # "INTERNAL_RELEASE"
    <3>1. release' = release
      BY <2>4 DEF StoreExecution
    <3>2. QED
      BY <2>1, <2>2, <2>3, <2>4, <3>1, NoneAssumption
      DEF ReleaseMatchesExecution, TypeOK, Mode
  <2>5. CASE Mode(a) = "INTERNAL_RELEASE"
    <3>1. Plan(a) \in Plans /\ release[Plan(a)] = None
      BY <1>2, <2>5, SnapshotsAssumption
      DEF Plan, TypeOK, Snapshot, StoreExecution, RowsFree, Action
    <3>2. release' = [release EXCEPT ![Plan(a)] = a]
      BY <2>5 DEF StoreExecution
    <3>3. \A b \in Action \ {a} :
            Mode(b) = "INTERNAL_RELEASE" /\ Executed(b) => Plan(b) # Plan(a)
      BY <3>1, NoneAssumption DEF ReleaseMatchesExecution
    <3>4. ASSUME NEW b \in Action, Mode(b) = "INTERNAL_RELEASE", Executed(b)'
          PROVE  release'[Plan(b)] = b
      <4>1. CASE b = a
        BY <3>1, <3>2, <4>1 DEF TypeOK
      <4>2. CASE b # a
        <5>1. release[Plan(b)] = b /\ Plan(b) # Plan(a)
          BY <2>2, <3>3, <3>4, <4>2 DEF ReleaseMatchesExecution
        <5>2. QED
          BY <3>1, <3>2, <5>1 DEF TypeOK
      <4>3. QED
        BY <4>1, <4>2
    <3>5. ASSUME NEW p \in Plans, NEW b \in Action, release'[p] = b
          PROVE  Plan(b) = p /\ Mode(b) = "INTERNAL_RELEASE" /\ Executed(b)'
      <4>1. CASE p = Plan(a)
        <5>1. b = a
          BY <3>1, <3>2, <3>5, <4>1 DEF TypeOK
        <5>2. QED
          BY <2>1, <2>5, <4>1, <5>1
      <4>2. CASE p # Plan(a)
        <5>1. release[p] = b /\ b # None
          BY <3>2, <3>5, <4>2, NoneAssumption DEF TypeOK
        <5>2. Plan(b) = p /\ Mode(b) = "INTERNAL_RELEASE" /\ Executed(b)
          BY <5>1 DEF ReleaseMatchesExecution
        <5>3. QED
          BY <2>1, <2>2, <5>2
      <4>3. QED
        BY <4>1, <4>2
    <3>6. ASSUME NEW p \in Plans, release'[p] # None
          PROVE  /\ Plan(release[p])' = p
                 /\ Mode(release[p])' = "INTERNAL_RELEASE"
                 /\ Executed(release[p])'
      <4>1. PICK b \in Action : release'[p] = b
        BY <3>6 DEF TypeOK
      <4>2. QED
        BY <2>3, <3>5, <4>1 DEF Plan, Mode, Executed
    <3>7. QED
      BY <2>3, <3>4, <3>6 DEF ReleaseMatchesExecution, Mode, Plan
  <2>6. QED
    BY <2>4, <2>5
<1>10. AnswerIsStored'
  <2>1. ASSUME NEW q \in Requests, pc'[q] = "answered"
        PROVE  reply'[q] # None /\ execution'[call'[q].action][reply'[q]] # None
    <3>1. CASE q = r
      BY <1>1, <1>4, <3>1, NoneAssumption DEF StoreExecution, TypeOK
    <3>2. CASE q # r
      <4>1. pc[q] = "answered" /\ reply'[q] = reply[q] /\ call' = call
        BY <2>1, <3>2 DEF StoreExecution, TypeOK
      <4>2. call[q].action # a
        BY <1>3, <4>1 DEF AnswerIsStored, TypeOK
      <4>3. QED
        BY <1>4, <4>1, <4>2, CallType DEF AnswerIsStored
    <3>3. QED
      BY <3>1, <3>2
  <2>2. QED
    BY <2>1 DEF AnswerIsStored
<1>11. QED
  BY <1>5, <1>6, <1>7, <1>8, <1>9, <1>10

LEMMA ExecuteCommitStep ==
    ASSUME IInv, NEW r \in Requests, ExecuteCommit(r)
    PROVE  IInv'
<1> USE DEF IInv
<1>1. TypeOK'
  BY TypeStep DEF Next
<1>2. PICK a \in Action, k \in Keys :
        /\ pc[r] = "locked" /\ call[r].action = a /\ call[r].key = k
        /\ StoreExecution(r, a, k) \/ RollBack(r, a, k)
  BY CallType DEF ExecuteCommit
<1>3. CASE RollBack(r, a, k)
  <2>1. LockInv'
    <3>1. \A q \in Requests : pc[q] = "locked" /\ q # r => call[q].action # a
      BY <1>2 DEF LockInv
    <3>2. QED
      BY <1>1, <1>2, <1>3, <3>1, CallType
      DEF RollBack, Refuse, rows, LockInv, TypeOK, Mode, Plan
  <2>2. ApprovedInv' /\ OneExecution' /\ ExecutedIsApproved'
    BY <1>3 DEF RollBack, Refuse, rows, ApprovedInv, OneExecution,
                ExecutedIsApproved, CurrentApproval, GapsAllow
  <2>3. ReleaseMatchesExecution'
    BY <1>3 DEF RollBack, Refuse, rows, ReleaseMatchesExecution, Executed, Plan, Mode
  <2>4. AnswerIsStored'
    BY <1>3 DEF RollBack, Refuse, rows, AnswerIsStored, TypeOK
  <2>5. QED
    BY <1>1, <2>1, <2>2, <2>3, <2>4
<1>4. CASE StoreExecution(r, a, k)
  BY <1>1, <1>2, <1>4, StoreExecutionStep
<1>5. QED
  BY <1>2, <1>3, <1>4

LEMMA ExecuteAbortStep ==
    ASSUME IInv, NEW r \in Requests, ExecuteAbort(r)
    PROVE  IInv'
<1> USE DEF IInv
<1>0. TypeOK'
  BY TypeStep DEF Next
<1>1. LockInv'
  <2>1. \A q \in Requests : pc'[q] \in {"locked", "replay"} =>
          q # r /\ pc'[q] = pc[q] /\ call'[q] = call[q] /\ call[q].action \in Action
    BY CallType DEF ExecuteAbort, TypeOK
  <2>2. \A b \in Action : lock'[b] # None => lock'[b] = lock[b] /\ lock[b] # r
    BY DEF ExecuteAbort
  <2>3. \A b \in Action : lock[b] # r => lock'[b] = lock[b]
    BY DEF ExecuteAbort
  <2>4. \A b \in Action : lock'[b] # None =>
          pc'[lock'[b]] = "locked" /\ call'[lock'[b]].action = b
    BY <2>2 DEF LockInv, ExecuteAbort, TypeOK
  <2>5. QED
    BY <2>1, <2>3, <2>4 DEF LockInv, ExecuteAbort, Mode, Plan, rows
<1>2. ApprovedInv'
  BY <1>0, NoneAssumption DEF TypeOK, ApprovedInv, CurrentApproval, GapsAllow, ExecuteAbort, rows
<1>3. OneExecution'
  BY <1>0, NoneAssumption DEF TypeOK, OneExecution, ExecuteAbort, rows
<1>4. ExecutedIsApproved'
  BY <1>0, NoneAssumption DEF TypeOK, ExecutedIsApproved, CurrentApproval, GapsAllow, ExecuteAbort, rows
<1>5. ReleaseMatchesExecution'
  BY <1>0, NoneAssumption DEF TypeOK, ReleaseMatchesExecution, Executed, Plan, Mode, ExecuteAbort, rows
<1>6. AnswerIsStored'
  BY <1>0, NoneAssumption DEF TypeOK, AnswerIsStored, ExecuteAbort, rows
<1>7. QED
  BY <1>0, <1>1, <1>2, <1>3, <1>4, <1>5, <1>6

LEMMA ExecuteDoneStep ==
    ASSUME IInv, NEW r \in Requests, ExecuteDone(r)
    PROVE  IInv'
<1> USE DEF IInv
<1>0. TypeOK'
  BY TypeStep DEF Next
<1>1. LockInv'
  BY <1>0, NoneAssumption DEF TypeOK, LockInv, Mode, Plan, ExecuteDone, rows
<1>2. ApprovedInv'
  BY <1>0, NoneAssumption DEF TypeOK, ApprovedInv, CurrentApproval, GapsAllow, ExecuteDone, rows
<1>3. OneExecution'
  BY <1>0, NoneAssumption DEF TypeOK, OneExecution, ExecuteDone, rows
<1>4. ExecutedIsApproved'
  BY <1>0, NoneAssumption DEF TypeOK, ExecutedIsApproved, CurrentApproval, GapsAllow, ExecuteDone, rows
<1>5. ReleaseMatchesExecution'
  BY <1>0, NoneAssumption DEF TypeOK, ReleaseMatchesExecution, Executed, Plan, Mode, ExecuteDone, rows
<1>6. AnswerIsStored'
  BY <1>0, NoneAssumption DEF TypeOK, AnswerIsStored, ExecuteDone, rows
<1>7. QED
  BY <1>0, <1>1, <1>2, <1>3, <1>4, <1>5, <1>6

-----------------------------------------------------------------------------
(* Stuttering and the start. *)
LEMMA Stutter == IInv /\ UNCHANGED vars => IInv'
BY DEF vars, rows, IInv, TypeOK, LockInv, ApprovedInv, OneExecution,
       ExecutedIsApproved, ReleaseMatchesExecution, AnswerIsStored, Executed,
       CurrentApproval, GapsAllow, Plan, Mode

LEMMA InitInv == Init => IInv
<1> SUFFICES ASSUME Init PROVE IInv
  OBVIOUS
<1> USE CodesAssumption, PayloadsAssumption, RevisionAssumption DEF Init
<1>1. TypeOK
  BY DEF TypeOK, Status, Action
<1>2. LockInv /\ ApprovedInv /\ AnswerIsStored
  BY DEF LockInv, ApprovedInv, AnswerIsStored
<1>3. OneExecution /\ ExecutedIsApproved /\ ReleaseMatchesExecution
  BY DEF OneExecution, ExecutedIsApproved, ReleaseMatchesExecution, Executed
<1>4. QED
  BY <1>1, <1>2, <1>3 DEF IInv

LEMMA NextInv == IInv /\ [Next]_vars => IInv'
BY EnsureStep, UpdatePayloadStep, DecideStep, ExecuteLookupStep,
   ExecuteReplayStep, ExecuteLockStep, ExecuteCommitStep, ExecuteAbortStep,
   ExecuteDoneStep, Stutter
DEF Next

LEMMA Invariance == Spec => []IInv
BY InitInv, NextInv, PTL DEF Spec

(* Every variable keeps its type. *)
THEOREM TypeCorrect == Spec => []TypeOK
BY Invariance, PTL DEF IInv

(* Execute is idempotent: an action has one execution attempt at most,     *)
(* whatever the calls, the keys, the crashes and the interleaving.         *)
THEOREM ExecutedOnce == Spec => []OneExecution
BY Invariance, PTL DEF IInv

(* Only an approved payload is executed, and it stays what it was. *)
THEOREM ExecutedApproved == Spec => []ExecutedIsApproved
BY Invariance, PTL DEF IInv

(* A plan that several packages froze is released by one action at most.   *)
THEOREM ReleasedOnce == Spec => []ReleaseMatchesExecution
BY Invariance, PTL DEF IInv

(* Whoever is told that an action was executed is given a stored receipt.  *)
THEOREM AnswersStored == Spec => []AnswerIsStored
BY Invariance, PTL DEF IInv

(* A decision on a revision is never changed. *)
THEOREM DecisionsFinal == Spec => DecisionFinal
<1>1. IInv /\ [Next]_vars =>
        [\A a \in Action, n \in 1..MaxRevision :
           decision[a][n] # None => decision'[a][n] = decision[a][n]]_vars
  <2> SUFFICES ASSUME TypeOK, Next, NEW a \in Action, NEW n \in 1..MaxRevision,
                      decision[a][n] # None
               PROVE  decision'[a][n] = decision[a][n]
    BY DEF IInv
  <2>1. ASSUME NEW b \in Action, NEW kind \in {"APPROVED", "REJECTED"},
               NEW seen \in Payloads, NEW ack \in BOOLEAN, Decide(b, kind, seen, ack)
        PROVE  decision'[a][n] = decision[a][n]
    BY <2>1 DEF Decide, Undecided, TypeOK
  <2>2. CASE UNCHANGED decision
    BY <2>2
  <2>3. QED
    BY <2>1, <2>2
    DEF Next, Ensure, UpdatePayload, ExecuteLookup, ExecuteReplay, ExecuteLock,
        LockRow, ExecuteCommit, StoreExecution, RollBack, ExecuteAbort,
        ExecuteDone, Answer, Refuse, rows
<1>2. QED
  BY Invariance, <1>1, PTL DEF Spec, DecisionFinal

(* Nothing about an executed action changes. *)
THEOREM ExecutedStaysFrozen == Spec => ExecutedFrozen
<1> DEFINE Frozen(a) == /\ status'[a] = status[a]
                        /\ revision'[a] = revision[a]
                        /\ payload'[a] = payload[a]
                        /\ decision'[a] = decision[a]
                        /\ execution'[a] = execution[a]
<1>1. IInv /\ [Next]_vars => [\A a \in Action : status[a] = "EXECUTED" => Frozen(a)]_vars
  <2> SUFFICES ASSUME IInv, Next, NEW a \in Action, status[a] = "EXECUTED"
               PROVE  Frozen(a)
    OBVIOUS
  <2> USE DEF IInv, TypeOK
  <2>1. ASSUME NEW b \in Action, Ensure(b) PROVE Frozen(a)
    BY <2>1 DEF Ensure
  <2>2. ASSUME NEW b \in Action, NEW p \in Payloads, UpdatePayload(b, p)
        PROVE  Frozen(a)
    BY <2>2 DEF UpdatePayload, Open
  <2>3. ASSUME NEW b \in Action, NEW kind \in {"APPROVED", "REJECTED"},
               NEW seen \in Payloads, NEW ack \in BOOLEAN, Decide(b, kind, seen, ack)
        PROVE  Frozen(a)
    BY <2>3 DEF Decide, Open
  <2>4. ASSUME NEW r \in Requests, NEW b \in Action, NEW k \in Keys,
               pc[r] = "locked", call[r].action = b, StoreExecution(r, b, k)
        PROVE  Frozen(a)
    <3>1. b # a
      BY <2>4 DEF LockInv
    <3>2. QED
      BY <2>4, <3>1 DEF StoreExecution
  <2>5. CASE UNCHANGED rows
    BY <2>5 DEF rows
  <2>6. ASSUME NEW r \in Requests, ExecuteCommit(r) PROVE Frozen(a)
    BY <2>4, <2>5, <2>6, CallType DEF ExecuteCommit, RollBack, Refuse
  <2>7. QED
    BY <2>1, <2>2, <2>3, <2>5, <2>6
    DEF Next, ExecuteLookup, ExecuteReplay, ExecuteLock, LockRow, ExecuteAbort,
        ExecuteDone, Answer, Refuse
<1>2. QED
  BY Invariance, <1>1, PTL DEF Spec, ExecutedFrozen
=============================================================================
