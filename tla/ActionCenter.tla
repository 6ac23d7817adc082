---------------------------- MODULE ActionCenter ----------------------------
(***************************************************************************)
(* Controlled actions of a frozen decision package                         *)
(* (internal/actioncenter/service.go, db/queries/actions.sql, migration    *)
(* 00014): an action is edited, approved or rejected, and executed once.   *)
(*                                                                         *)
(* Ensure, UpdatePayload and decide are one transaction (or one autocommit *)
(* statement) on the row of one action, so each is one step that needs the *)
(* row lock to be free.  Execute is the operation whose steps matter: it   *)
(* looks its idempotency key up BEFORE it takes the row lock, and a        *)
(* release also races with the actions of other packages that froze the    *)
(* same placement plan, whose rows it does not lock.                       *)
(***************************************************************************)
EXTENDS Naturals, FiniteSets

CONSTANTS
    Packages,      \* decision packages of one workspace
    Codes,         \* codes of proposed actions
    Controls,      \* codes whose mode is CONTROL
    Releases,      \* codes whose mode is INTERNAL_RELEASE
    Position,      \* position of a code among the proposals of a package
    Plans,         \* placement evaluations a package may have frozen
    Snapshots,     \* what a package may have frozen
    Payloads,      \* payloads, told apart by their hash
    Addressed,     \* the payloads that name a recipient
    Default,       \* defaultPayload of each code
    Requests,      \* concurrent Execute calls
    Keys,          \* idempotency keys
    MaxRevision,   \* bound on the edits of an action
    None           \* an absent row

Snapshot == [codes: SUBSET Codes, plan: Plans \cup {None},
             critical: BOOLEAN, review: BOOLEAN]
\* payload: the hash stored; seen: the hash the reviewer sent;
\* acknowledged: the reviewer accepted the review gaps, whose codes are stored.
Decision == [kind: {"APPROVED", "REJECTED"}, payload: Payloads,
             seen: Payloads, acknowledged: BOOLEAN]
Execution == [revision: 1..MaxRevision, payload: Payloads]
Action == Packages \X Codes
Call == [action: Action, key: Keys]

ASSUME CodesAssumption ==
    /\ Controls \subseteq Codes
    /\ Releases \subseteq Codes
    /\ Controls \cap Releases = {}
    /\ Position \in [Codes -> Nat]
ASSUME PayloadsAssumption ==
    /\ Addressed \subseteq Payloads
    /\ Default \in [Codes -> Payloads]
ASSUME RevisionAssumption == MaxRevision \in Nat \ {0}
\* A package proposes the release of its plan exactly when the plan is READY.
ASSUME SnapshotsAssumption ==
    /\ Snapshots \subseteq Snapshot
    /\ \A s \in Snapshots :
         s.plan # None <=> \E c \in s.codes : c \in Releases
ASSUME NoneAssumption ==
    None \notin Requests \cup Keys \cup Plans \cup Decision \cup Execution
                \cup Action \cup Call

VARIABLES
    snapshot,   \* what each package froze
    status,     \* status of the row of an action, or "ABSENT"
    revision, payload,
    decision,   \* action_decisions, UNIQUE (action_id, action_revision)
    execution,  \* execution_attempts, UNIQUE (action_id, idempotency_key)
    release,    \* placement_releases, UNIQUE (placement_evaluation_id)
    lock,       \* the Execute transaction that holds the row of an action
    pc, call, reply

rows == <<snapshot, status, revision, payload, decision, execution, release>>
vars == <<rows, lock, pc, call, reply>>

Status == {"ABSENT", "PROPOSED", "APPROVED", "REJECTED", "EXECUTED"}

(* actionMode *)
Mode(a) == IF a[2] \in Controls THEN "CONTROL"
           ELSE IF a[2] \in Releases THEN "INTERNAL_RELEASE"
           ELSE "OPERATOR_HANDOFF"

Plan(a) == snapshot[a[1]].plan

Init ==
    /\ snapshot \in [Packages -> Snapshots]
    /\ status = [a \in Action |-> "ABSENT"]
    /\ revision = [a \in Action |-> 1]
    /\ payload = [a \in Action |-> Default[a[2]]]
    /\ decision = [a \in Action |-> [n \in 1..MaxRevision |-> None]]
    /\ execution = [a \in Action |-> [k \in Keys |-> None]]
    /\ release = [p \in Plans |-> None]
    /\ lock = [a \in Action |-> None]
    /\ pc = [r \in Requests |-> "idle"]
    /\ call = [r \in Requests |-> None]
    /\ reply = [r \in Requests |-> None]

-----------------------------------------------------------------------------
(* Ensure inserts the proposals in order, each in its own autocommit, and  *)
(* ON CONFLICT (decision_package_id, code) DO NOTHING: an error between    *)
(* two inserts leaves a prefix behind, which a later Ensure completes.     *)
Ensure(a) ==
    /\ a[2] \in snapshot[a[1]].codes
    /\ status[a] = "ABSENT"
    /\ \A c \in snapshot[a[1]].codes :
         Position[c] < Position[a[2]] => status[<<a[1], c>>] # "ABSENT"
    /\ status' = [status EXCEPT
         ![a] = IF Mode(a) = "CONTROL" THEN "EXECUTED" ELSE "PROPOSED"]
    /\ UNCHANGED <<snapshot, revision, payload, decision, execution, release,
                   lock, pc, call, reply>>

(* What UpdatePayload and decide refuse on the locked row. *)
OpenEvenExecuted(a) ==
    /\ lock[a] = None
    /\ status[a] # "ABSENT"
    /\ Mode(a) # "CONTROL"

Open(a) ==
    /\ lock[a] = None
    /\ status[a] \notin {"ABSENT", "EXECUTED"}
    /\ Mode(a) # "CONTROL"

(* UpdatePayload: an unchanged payload is a no-op unless the action was    *)
(* rejected; any other edit is a new revision, PROPOSED again.             *)
UpdatePayload(a, p) ==
    /\ Open(a)
    /\ p # payload[a] \/ status[a] = "REJECTED"
    /\ revision[a] < MaxRevision
    /\ revision' = [revision EXCEPT ![a] = @ + 1]
    /\ payload' = [payload EXCEPT ![a] = p]
    /\ status' = [status EXCEPT ![a] = "PROPOSED"]
    /\ UNCHANGED <<snapshot, decision, execution, release, lock, pc, call, reply>>

(* Critical gaps refuse an approval; review gaps need the reviewer to      *)
(* acknowledge them.                                                       *)
GapsAllow(a, ack) ==
    /\ ~snapshot[a[1]].critical
    /\ snapshot[a[1]].review => ack

(* The insert into action_decisions fails on a revision already decided. *)
UndecidedOrNot(a) == TRUE
Undecided(a) == decision[a][revision[a]] = None

(* The reviewer sends the hash of the payload they saw; an approval also   *)
(* needs a recipient and the gaps accounted for.                           *)
ReviewableUngated(a, kind, seen, ack) ==
    /\ seen = payload[a]
    /\ kind = "APPROVED" => payload[a] \in Addressed

Reviewable(a, kind, seen, ack) ==
    /\ seen = payload[a]
    /\ kind = "APPROVED" => payload[a] \in Addressed /\ GapsAllow(a, ack)

(* decide *)
Decide(a, kind, seen, ack) ==
    /\ Open(a)
    /\ Reviewable(a, kind, seen, ack)
    /\ Undecided(a)
    /\ decision' = [decision EXCEPT ![a] = [@ EXCEPT ![revision[a]] =
         [kind |-> kind, payload |-> payload[a], seen |-> seen,
          acknowledged |-> kind = "APPROVED" /\ ack]]]
    /\ status' = [status EXCEPT ![a] = kind]
    /\ UNCHANGED <<snapshot, revision, payload, execution, release,
                   lock, pc, call, reply>>

-----------------------------------------------------------------------------
(* Execute, step by step. *)

(* The key is looked up before the row is locked.  A client knows the id   *)
(* of an action from Ensure.                                               *)
ExecuteLookup(r, a, k) ==
    /\ pc[r] = "idle"
    /\ status[a] # "ABSENT"
    /\ call' = [call EXCEPT ![r] = [action |-> a, key |-> k]]
    /\ pc' = [pc EXCEPT ![r] =
         IF execution[a][k] # None THEN "replay" ELSE "acquire"]
    /\ UNCHANGED <<rows, lock, reply>>

Answer(r, k) ==
    /\ pc' = [pc EXCEPT ![r] = "answered"]
    /\ reply' = [reply EXCEPT ![r] = k]
    /\ UNCHANGED <<rows, lock, call>>

RefuseHalfway(r) ==
    /\ pc' = [pc EXCEPT ![r] = "idle"]
    /\ UNCHANGED <<rows, call, reply>>

Refuse(r) ==
    /\ pc' = [pc EXCEPT ![r] = "idle"]
    /\ call' = [call EXCEPT ![r] = None]
    /\ UNCHANGED <<rows, reply>>

(* The stored receipt is returned once the row could be locked. *)
ExecuteReplay(r) ==
    /\ pc[r] = "replay"
    /\ lock[call[r].action] = None
    /\ Answer(r, call[r].key)

(* GetCurrentApproval *)
CurrentApproval(a) ==
    /\ decision[a][revision[a]] # None
    /\ decision[a][revision[a]].kind = "APPROVED"
    /\ decision[a][revision[a]].payload = payload[a]

(* The frozen plan can be released and, so far, nobody has. *)
Releasable(a) == Plan(a) # None /\ release[Plan(a)] = None

MayExecuteAgain(a) ==
    /\ status[a] \in {"APPROVED", "EXECUTED"}
    /\ Mode(a) # "CONTROL"
    /\ CurrentApproval(a)
    /\ Mode(a) = "INTERNAL_RELEASE" => Releasable(a)

MayExecute(a) ==
    /\ status[a] = "APPROVED"
    /\ Mode(a) # "CONTROL"
    /\ CurrentApproval(a)
    /\ Mode(a) = "INTERNAL_RELEASE" => Releasable(a)

(* GetActionForUpdate and the checks that follow it under the row lock.    *)
(* An action that somebody executed meanwhile answers with its receipt.    *)
LockRow(r, a) ==
    /\ lock[a] = None
    /\ \/ /\ MayExecute(a)
          /\ lock' = [lock EXCEPT ![a] = r]
          /\ pc' = [pc EXCEPT ![r] = "locked"]
          /\ UNCHANGED <<rows, call, reply>>
       \/ /\ status[a] = "EXECUTED"
          /\ Mode(a) # "CONTROL"
          /\ \E k \in Keys : execution[a][k] # None /\ Answer(r, k)
       \/ /\ ~MayExecute(a)
          /\ \/ status[a] # "EXECUTED"
             \/ Mode(a) = "CONTROL"
             \/ \A k \in Keys : execution[a][k] = None
          /\ Refuse(r)
          /\ UNCHANGED lock

ExecuteLock(r) == pc[r] = "acquire" /\ LockRow(r, call[r].action)

(* The inserts that ON CONFLICT DO NOTHING can refuse. *)
RowsOverwritten(a, k) == execution[a][k] = None

RowsFree(a, k) ==
    /\ execution[a][k] = None
    /\ Mode(a) = "INTERNAL_RELEASE" => release[Plan(a)] = None

(* Inserts, status update and COMMIT. *)
StoreExecution(r, a, k) ==
    /\ RowsFree(a, k)
    /\ execution' = [execution EXCEPT ![a] = [@ EXCEPT ![k] =
         [revision |-> revision[a], payload |-> payload[a]]]]
    /\ release' = IF Mode(a) = "INTERNAL_RELEASE"
                  THEN [release EXCEPT ![Plan(a)] = a]
                  ELSE release
    /\ status' = [status EXCEPT ![a] = "EXECUTED"]
    /\ lock' = [lock EXCEPT ![a] = None]
    /\ pc' = [pc EXCEPT ![r] = "answered"]
    /\ reply' = [reply EXCEPT ![r] = k]
    /\ UNCHANGED <<snapshot, revision, payload, decision, call>>

(* A refused insert rolls everything back. *)
RollBackUnchecked(r, a, k) ==
    /\ ~RowsFree(a, k)
    /\ lock' = [lock EXCEPT ![a] = None]
    /\ pc' = [pc EXCEPT ![r] = "answered"]
    /\ reply' = [reply EXCEPT ![r] = k]
    /\ UNCHANGED <<rows, call>>

RollBackLocked(r, a, k) == ~RowsFree(a, k) /\ Refuse(r) /\ UNCHANGED lock

RollBack(r, a, k) ==
    /\ ~RowsFree(a, k)
    /\ lock' = [lock EXCEPT ![a] = None]
    /\ Refuse(r)

ExecuteCommit(r) ==
    /\ pc[r] = "locked"
    /\ \/ StoreExecution(r, call[r].action, call[r].key)
       \/ RollBack(r, call[r].action, call[r].key)

(* The client goes away, the connection breaks or the process dies: the    *)
(* deferred Rollback, or the server, drops the transaction and its lock.   *)
ExecuteAbort(r) ==
    /\ pc[r] \in {"replay", "acquire", "locked"}
    /\ pc' = [pc EXCEPT ![r] = "idle"]
    /\ lock' = [a \in Action |-> IF lock[a] = r THEN None ELSE lock[a]]
    /\ call' = [call EXCEPT ![r] = None]
    /\ UNCHANGED <<rows, reply>>

(* The client reads its receipt, or the answer of a call that committed is *)
(* lost; either way it may call again, with the same key or another one.   *)
ExecuteDone(r) ==
    /\ pc[r] = "answered"
    /\ pc' = [pc EXCEPT ![r] = "idle"]
    /\ call' = [call EXCEPT ![r] = None]
    /\ reply' = [reply EXCEPT ![r] = None]
    /\ UNCHANGED <<rows, lock>>

Next ==
    \/ \E a \in Action : Ensure(a)
    \/ \E a \in Action, p \in Payloads : UpdatePayload(a, p)
    \/ \E a \in Action, kind \in {"APPROVED", "REJECTED"},
          seen \in Payloads, ack \in BOOLEAN : Decide(a, kind, seen, ack)
    \/ \E r \in Requests, a \in Action, k \in Keys : ExecuteLookup(r, a, k)
    \/ \E r \in Requests : ExecuteReplay(r)
    \/ \E r \in Requests : ExecuteLock(r)
    \/ \E r \in Requests : ExecuteCommit(r)
    \/ \E r \in Requests : ExecuteAbort(r)
    \/ \E r \in Requests : ExecuteDone(r)

Spec == Init /\ [][Next]_vars

(* The calls that hold or wait for the row of an action come to an end: a  *)
(* transaction that has its lock runs on, and the server grants a row lock *)
(* to its waiters in turn.  Users edit, decide and call at will.           *)
Fairness ==
    \A r \in Requests :
        SF_vars(ExecuteReplay(r)) /\ SF_vars(ExecuteLock(r))
                                 /\ WF_vars(ExecuteCommit(r))

FairSpec == Spec /\ Fairness

-----------------------------------------------------------------------------
(* Every variable has its type; a call under way knows its arguments. *)
TypeOK ==
    /\ snapshot \in [Packages -> Snapshots]
    /\ status \in [Action -> Status]
    /\ revision \in [Action -> 1..MaxRevision]
    /\ payload \in [Action -> Payloads]
    /\ decision \in [Action -> [1..MaxRevision -> Decision \cup {None}]]
    /\ execution \in [Action -> [Keys -> Execution \cup {None}]]
    /\ release \in [Plans -> Action \cup {None}]
    /\ lock \in [Action -> Requests \cup {None}]
    /\ pc \in [Requests -> {"idle", "replay", "acquire", "locked", "answered"}]
    /\ call \in [Requests -> Call \cup {None}]
    /\ \A r \in Requests : pc[r] = "idle" <=> call[r] = None
    /\ reply \in [Requests -> Keys \cup {None}]

Executed(a) == \E k \in Keys : execution[a][k] # None

(* However many clients call Execute, with however many keys, an action    *)
(* has one execution attempt (service.go:249-287: the key is checked       *)
(* before the lock, the status after it).                                  *)
OneExecution ==
    \A a \in Action, k1, k2 \in Keys :
        execution[a][k1] # None /\ execution[a][k2] # None => k1 = k2

(* What was executed is what the action still says, and that very revision *)
(* of that very payload was approved by a reviewer who saw it, with a      *)
(* recipient and with the gaps of the frozen package accounted for.  An    *)
(* edit back to a payload approved before needs an approval of its own.    *)
ExecutedIsApproved ==
    \A a \in Action, k \in Keys : execution[a][k] # None =>
        /\ status[a] = "EXECUTED"
        /\ execution[a][k] = [revision |-> revision[a], payload |-> payload[a]]
        /\ CurrentApproval(a)
        /\ decision[a][revision[a]].seen = payload[a]
        /\ payload[a] \in Addressed
        /\ GapsAllow(a, decision[a][revision[a]].acknowledged)

(* A plan is released by one action at most, whichever packages froze it,  *)
(* and a release exists exactly when the action that made it was executed. *)
ReleaseMatchesExecution ==
    /\ \A p \in Plans : release[p] # None =>
         /\ Plan(release[p]) = p
         /\ Mode(release[p]) = "INTERNAL_RELEASE"
         /\ Executed(release[p])
    /\ \A a \in Action :
         Mode(a) = "INTERNAL_RELEASE" /\ Executed(a) => release[Plan(a)] = a

(* A client that got a receipt got the receipt of an execution that is     *)
(* there, also when another call executed the action in the meantime.      *)
AnswerIsStored ==
    \A r \in Requests : pc[r] = "answered" =>
        /\ reply[r] # None
        /\ execution[call[r].action][reply[r]] # None

(* A decision on a revision is final: a rejection cannot become an         *)
(* approval of the same revision, nor the other way round.                 *)
DecisionFinal ==
    [][\A a \in Action, n \in 1..MaxRevision :
         decision[a][n] # None => decision'[a][n] = decision[a][n]]_vars

(* Nothing about an executed action changes any more. *)
ExecutedFrozen ==
    [][\A a \in Action : status[a] = "EXECUTED" =>
         /\ status'[a] = status[a]
         /\ revision'[a] = revision[a]
         /\ payload'[a] = payload[a]
         /\ decision'[a] = decision[a]
         /\ execution'[a] = execution[a]]_vars

(* A call of Execute always returns: no error path keeps the row locked. *)
ExecuteReturns ==
    \A r \in Requests :
        pc[r] \in {"replay", "acquire", "locked"}
            ~> pc[r] \in {"idle", "answered"}
=============================================================================
