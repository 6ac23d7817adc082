------------------------------ MODULE SignOff ------------------------------
(***************************************************************************)
(* What the coordination of a field promises (README, "Modules 9-12"): the *)
(* farmer, the contractor and the plant sign off in that order, each by a  *)
(* party of that role, unless one of them rejects first; a rejection is    *)
(* final and the last signature completes the coordination.                *)
(***************************************************************************)
CONSTANTS
    Workflows,
    Parties,
    RoleOf,     \* the role of each party
    None

Roles == {"FARMER", "CONTRACTOR", "PLANT"}

\* The roles that sign before r does.
Before(r) == CASE r = "FARMER" -> {}
               [] r = "CONTRACTOR" -> {"FARMER"}
               [] r = "PLANT" -> {"FARMER", "CONTRACTOR"}

VARIABLES
    outcome,    \* of each workflow
    signer      \* the party whose signature each role gave, or None

svars == <<outcome, signer>>

SInit ==
    /\ outcome = [w \in Workflows |-> "absent"]
    /\ signer = [w \in Workflows |-> [r \in Roles |-> None]]

Begin(w) ==
    /\ outcome[w] = "absent"
    /\ outcome' = [outcome EXCEPT ![w] = "open"]
    /\ UNCHANGED signer

Sign(w, r, p) ==
    /\ outcome[w] = "open"
    /\ RoleOf[p] = r
    /\ signer[w][r] = None
    /\ \A q \in Before(r) : signer[w][q] # None
    /\ signer' = [signer EXCEPT ![w] = [@ EXCEPT ![r] = p]]
    /\ outcome' = [outcome EXCEPT ![w] = IF r = "PLANT" THEN "complete" ELSE "open"]

Reject(w) ==
    /\ outcome[w] = "open"
    /\ outcome' = [outcome EXCEPT ![w] = "rejected"]
    /\ UNCHANGED signer

SNext ==
    \E w \in Workflows :
        \/ Begin(w)
        \/ \E r \in Roles, p \in Parties : Sign(w, r, p)
        \/ Reject(w)

SSpec == SInit /\ [][SNext]_svars
=============================================================================
