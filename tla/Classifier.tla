----------------------------- MODULE Classifier -----------------------------
(***************************************************************************)
(* The tier of a batch (internal/policy: classifier.go, and the contract   *)
(* of catalog.go a rule pack must meet): a pure function of a rule pack    *)
(* and of the confirmed laboratory evidence.  Concentrations are integers, *)
(* dry weight; what cannot be read is None.  The reasons given to the      *)
(* operator are left out, the tier and the rate cap are kept.              *)
(***************************************************************************)
EXTENDS Integers, FiniteSets

CONSTANT None

Tier == {"UNDETERMINED", "STANDARD", "ELEVATED", "PROHIBITED"}

(* The order of the thresholds, and a usable cap for the elevated rule. *)
validateRulePack(pack) ==
    /\ 0 <= pack.elevated
    /\ pack.elevated < pack.prohibited
    /\ pack.cap > 0
    /\ pack.methods # {}

isBiosolids(matrix) == matrix \in {"BIOSOLIDS", "SEWAGE SLUDGE", "SLUDGE"}
isAcceptedMethod(tokens, method) == method \in tokens

(* The evidence speaks of this pack's jurisdiction, of biosolids, by an    *)
(* accepted method, in dry weight.                                         *)
Applicable(pack, input) ==
    /\ input.jurisdiction = pack.jurisdiction
    /\ isBiosolids(input.matrix)
    /\ isAcceptedMethod(pack.methods, input.method)
    /\ input.basis = "DRY"

Required == {"PFOS", "PFOA"}
Rows(input) == {a \in input.analytes : a.name \in Required}

(* ListConfirmedAnalytesForClassification: the upper bound of a non-detect  *)
(* is its reporting limit, or else its detection limit.                     *)
UpperBound(a) == IF a.reportingLimit # None THEN a.reportingLimit ELSE a.detectionLimit
Reading(a) == IF a.nonDetect THEN UpperBound(a) ELSE a.value

(* A row that decides: a number, not negative, and if the analyte was not  *)
(* detected, a limit that excludes an elevated one.                        *)
UsableAnyLimit(pack, a) == Reading(a) # None /\ Reading(a) >= 0
Usable(pack, a) ==
    /\ Reading(a) # None
    /\ Reading(a) >= 0
    /\ a.nonDetect => Reading(a) <= pack.elevated

Conclusive(pack, input) ==
    /\ Applicable(pack, input)
    /\ \A a \in Rows(input) : Usable(pack, a)
    /\ {a.name : a \in Rows(input)} = Required

atOrAbove(a, threshold) == ~a.nonDetect /\ a.value >= threshold

Evaluate(pack, input) ==
    IF ~Conclusive(pack, input) THEN "UNDETERMINED"
    ELSE IF \E a \in Rows(input) : atOrAbove(a, pack.prohibited) THEN "PROHIBITED"
    ELSE IF \E a \in Rows(input) : atOrAbove(a, pack.elevated) THEN "ELEVATED"
    ELSE "STANDARD"

(* matched: what the matched rule allows at most. *)
matched(pack, tier) == IF tier = "ELEVATED" THEN pack.cap ELSE None

(* requirementsFor, over the requirements of the Michigan pack. *)
requirementsFor(tier) ==
    CASE tier = "STANDARD" -> {"RESULT-SUBMISSION", "LANDOWNER-COMMUNICATION"}
      [] tier = "ELEVATED" -> {"RESULT-SUBMISSION", "LANDOWNER-COMMUNICATION",
                               "ELEVATED-RATE", "SOURCE-EFFLUENT-30D", "SOURCE-REDUCTION"}
      [] tier = "PROHIBITED" -> {"WRD-NOTIFICATION", "SOURCE-EFFLUENT-30D",
                                 "SOURCE-REDUCTION", "LAND-APPLICATION-PROHIBITED",
                                 "ALTERNATIVE-MANAGEMENT"}
      [] OTHER -> {}
=============================================================================
