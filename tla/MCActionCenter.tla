---------------------------- MODULE MCActionCenter ----------------------------
(* Two situations: two packages of one decision that froze the same READY   *)
(* plan, and one package with a handoff, a control and any gaps.            *)
EXTENDS ActionCenter, TLC

CONSTANTS p1, p2, plan, draft, edited, other, rel, hand, ctrl

MCPosition == hand :> 1 @@ rel :> 2 @@ ctrl :> 3

\* The default payload of a release names a recipient, that of a handoff to
\* a landowner, a laboratory or a contractor does not.
MCDefault == hand :> draft @@ rel :> edited @@ ctrl :> edited

SharedPlan ==
    {[codes |-> {rel}, plan |-> plan, critical |-> FALSE, review |-> g] :
        g \in BOOLEAN}

Handoffs ==
    {[codes |-> {hand, ctrl}, plan |-> None, critical |-> g, review |-> h] :
        g, h \in BOOLEAN}

MCSnapshots == SharedPlan \cup Handoffs

\* A release is edited once at most, to a payload without a recipient and
\* back; a handoff twice, among three payloads.  The second package of the
\* handoffs is never opened.
Situation ==
    \/ /\ \A p \in Packages : snapshot[p] \in SharedPlan
       /\ \A p \in Packages :
            revision[<<p, rel>>] <= 2 /\ payload[<<p, rel>>] # other
    \/ /\ snapshot[p1] \in Handoffs
       /\ snapshot[p2] = snapshot[p1]
       /\ \A c \in Codes : status[<<p2, c>>] = "ABSENT"
=============================================================================
