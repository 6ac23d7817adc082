------------------------- MODULE MCDecisionPackage -------------------------
EXTENDS DecisionPackage, TLC

CONSTANTS f1, f2

(* Thresholds 2 and 4 stand for 20 and 100; the second pack lowers them. *)
MCPack == <<[jurisdiction |-> "MI", elevated |-> 2, prohibited |-> 4, cap |-> 15,
             methods |-> {"1633"}],
            [jurisdiction |-> "MI", elevated |-> 1, prohibited |-> 3, cap |-> 10,
             methods |-> {"1633"}]>>

Analyte(n, v, nd, rl) ==
    [name |-> n, value |-> v, nonDetect |-> nd, reportingLimit |-> rl, detectionLimit |-> 1]
Report(pfos, pfoa, method) ==
    [jurisdiction |-> "MI", matrix |-> "BIOSOLIDS", basis |-> "DRY", method |-> method,
     analytes |-> pfos \cup pfoa]

MCEvidenceInputs ==
    {Report({Analyte("PFOS", v, FALSE, None)}, {Analyte("PFOA", None, TRUE, 1)}, "1633") : v \in {1, 2, 4}}
      \cup {Report({Analyte("PFOS", 1, FALSE, None)}, {Analyte("PFOA", None, TRUE, 3)}, "1633")}

(* Nothing is followed past the last package; nor, once the last plan is   *)
(* made, a change of a field or an evaluation begun since, which only a    *)
(* further plan would read.                                                *)
Unread(p) ==
    \/ \E f \in Fields : field[f].boundary # p.boundary[f]
    \/ \E n \in DOMAIN p.input.fields :
         LET in == p.input.fields[n]
         IN \/ field[in.field].ready # (in.status = "READY")
            \/ LatestEvaluation(in.field) # in.evaluation
Unfinished ==
    /\ Cardinality(packages) < MaxPackages
    /\ Len(plans) = MaxPlans => ~Unread(plans[MaxPlans])

MCFieldOrder == <<f1, f2>>

(* Scale 10: 1.5 acres at 1.5 dry tons leave 2.25, which is written 2.3. *)
MCProfiles ==
    {f1 :> [acres |-> 15, agronomic |-> 15, prior |-> 0, crop |-> "food", road |-> 2] @@
     f2 :> [acres |-> 20, agronomic |-> 20, prior |-> 10, crop |-> "grain", road |-> 1]}

MCNoFacts == [floodplain |-> None, wetland |-> None, nhd |-> None, nearWetland |-> FALSE,
              slope |-> None, depth |-> None, housing |-> FALSE]
Clear == [floodplain |-> FALSE, wetland |-> FALSE, nhd |-> FALSE, nearWetland |-> FALSE,
          slope |-> "below", depth |-> "deeper", housing |-> FALSE]
Ended(s, c, o, facts) ==
    [status |-> s, critical |-> c, other |-> o, supplemental |-> TRUE, facts |-> facts]

MCOutcomes ==
    {Ended("SUCCEEDED", 0, 0, Clear),
     Ended("REVIEW_REQUIRED", 1, 1, [Clear EXCEPT !.floodplain = TRUE])}

MCQuantities == {[wet |-> 3, solids |-> 10]}
=============================================================================
