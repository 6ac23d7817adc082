--------------------------- MODULE PlacementEngine --------------------------
(***************************************************************************)
(* Which fields may take a batch, in which order, and how much of it       *)
(* (internal/placement/engine.go): a pure function of the tier, the rate   *)
(* cap, the quantity and what is stored of each field.                     *)
(*                                                                         *)
(* A decimal is an integer number of units, Scale units to one; the code   *)
(* computes with exact rationals and writes six places (formatRat).  What  *)
(* a fact measures is named by the side of the code's limits it lies on.   *)
(* The slope resolution of resolution.go is not consulted: Create passes   *)
(* no evidence store, so none is ever verified for a stored plan.          *)
(***************************************************************************)
EXTENDS Classifier, Sequences

CONSTANTS
    Scale,   \* units to one: 1000000 in the code
    Ton      \* units of wet mass times percent to one dry ton

ASSUME ScaleAssumption == Scale \in Nat \ {0} /\ Ton \in Nat \ {0}

(* Rat.FloatString: the nearest, halves away from zero. *)
formatRat(num, den) == (2 * num + den) \div (2 * den)

minRat(a, b) == IF a <= b THEN a ELSE b

dryTons(quantity) == formatRat(quantity.wet * quantity.solids * Scale, Ton)

-----------------------------------------------------------------------------
(* The five categories of vulnerability. *)

Overlaps(facts) == TRUE \in {facts.floodplain, facts.wetland, facts.nhd}

waterCategory(facts) ==
    IF Overlaps(facts) THEN "HIGH"
    ELSE IF facts.nearWetland THEN "MODERATE"
    ELSE IF None \in {facts.floodplain, facts.wetland, facts.nhd} THEN "UNKNOWN"
    ELSE "LOW"

subsurfaceCategory(facts) ==
    CASE facts.depth = "within 0.762 m" -> "HIGH"
      [] facts.depth = "within 3 m" -> "MODERATE"
      [] facts.depth = "deeper" -> "LOW"
      [] OTHER -> "UNKNOWN"

exceedsSurfaceSlopeLimit(facts) == facts.slope = "above"

surfaceCategory(facts) ==
    IF Overlaps(facts) \/ exceedsSurfaceSlopeLimit(facts) THEN "HIGH"
    ELSE IF None \in {facts.slope, facts.floodplain, facts.wetland, facts.nhd} THEN "UNKNOWN"
    ELSE "LOW"

humanCategory(facts, crop) ==
    CASE crop = "food" -> "HIGH"
      [] crop = "grain" -> "LOW"
      [] crop = "other" -> "MODERATE"
      [] OTHER -> IF facts.housing THEN "MODERATE" ELSE "UNKNOWN"

uncertaintyCategory(input) ==
    IF input.evaluation = None THEN "UNKNOWN"
    ELSE IF input.physicalStatus # "SUCCEEDED" \/ input.critical > 0 THEN "HIGH"
    ELSE IF input.other > 0 \/ ~input.supplemental THEN "MODERATE"
    ELSE "LOW"

categories(input) ==
    <<waterCategory(input.facts), subsurfaceCategory(input.facts),
      surfaceCategory(input.facts), humanCategory(input.facts, input.crop),
      uncertaintyCategory(input)>>

Count(bands, band) == Cardinality({i \in DOMAIN bands : bands[i] = band})

-----------------------------------------------------------------------------
(* evaluateField *)

Confirmed(input) == input.status = "READY" /\ input.rmpApproved

ExaminedAtAll(input) == input.evaluation # None
Examined(input) ==
    /\ input.evaluation # None
    /\ input.physicalStatus = "SUCCEEDED"
    /\ input.critical = 0
    /\ TRUE \notin {input.facts.wetland, input.facts.nhd}
    /\ ~exceedsSurfaceSlopeLimit(input.facts)

Measured(input) == None \notin {input.acres, input.agronomic, input.prior}

AllowedRateOfField(tier, policyRate, input) == input.agronomic
AllowedRate(tier, policyRate, input) ==
    IF tier = "ELEVATED" THEN minRat(input.agronomic, policyRate) ELSE input.agronomic

(* Units of units: acres times rate less the prior loading. *)
Room(input, rate) == input.acres * rate - input.prior * Scale

evaluateField(tier, policyRate, input) ==
    LET bands == categories(input)
        open == Confirmed(input) /\ Examined(input) /\ Measured(input)
        rate == AllowedRate(tier, policyRate, input)
        room == Room(input, rate)
    IN  [field |-> input.field,
         position |-> input.position,
         evaluation |-> input.evaluation,
         disposition |-> IF ~Confirmed(input) THEN "INELIGIBLE"
                         ELSE IF ~open THEN "REVIEW_REQUIRED"
                         ELSE IF room <= 0 THEN "INELIGIBLE"
                         ELSE "ELIGIBLE",
         high |-> Count(bands, "HIGH"),
         moderate |-> Count(bands, "MODERATE"),
         gaps |-> Count(bands, "UNKNOWN") + input.critical + input.other
                    + (IF Measured(input) THEN 0 ELSE 1),
         rate |-> IF open THEN rate ELSE None,
         capacity |-> IF open /\ room > 0 THEN formatRat(room, Scale) ELSE 0,
         road |-> input.road]

-----------------------------------------------------------------------------
(* rankFields: a stable sort, so the position breaks a tie. *)

dispositionOrder(d) ==
    CASE d = "ELIGIBLE" -> 0 [] d = "REVIEW_REQUIRED" -> 1 [] OTHER -> 2

Rank(f) == <<dispositionOrder(f.disposition), f.high, f.moderate, f.gaps,
             0 - f.capacity, f.road, f.position>>

Before(f, g) ==
    \E i \in DOMAIN Rank(f) :
        /\ Rank(f)[i] < Rank(g)[i]
        /\ \A j \in 1..(i - 1) : Rank(f)[j] = Rank(g)[j]

rankFields(fields) ==
    LET place(i) == 1 + Cardinality({j \in DOMAIN fields : Before(fields[j], fields[i])})
    IN  [k \in DOMAIN fields |-> fields[CHOOSE i \in DOMAIN fields : place(i) = k]]

-----------------------------------------------------------------------------
(* EvaluateWithEvidenceAndPolicy: each eligible field, in the order of the *)
(* ranks, takes what is left of the batch up to its capacity.              *)

Takes(f, remaining) ==
    IF f.disposition = "ELIGIBLE" THEN minRat(remaining, f.capacity) ELSE 0

Remaining(fields, batch) ==
    LET left[i \in 0..Len(fields)] ==
          IF i = 0 THEN batch ELSE left[i - 1] - Takes(fields[i], left[i - 1])
    IN left

Allocation(f, amount) ==
    [field |-> f.field, evaluation |-> f.evaluation, rate |-> f.rate,
     dryTons |-> amount, acres |-> formatRat(amount * Scale, f.rate)]

allocate(fields, batch) ==
    LET left == Remaining(fields, batch)
        rows[i \in 0..Len(fields)] ==
          IF i = 0 THEN <<>>
          ELSE IF left[i] < left[i - 1]
               THEN Append(rows[i - 1], Allocation(fields[i], left[i - 1] - left[i]))
               ELSE rows[i - 1]
    IN  rows[Len(fields)]

Plan(status, fields, allocations, batch, unallocated, gaps) ==
    [status |-> status, fields |-> fields, allocations |-> allocations,
     batch |-> batch, unallocated |-> unallocated, gaps |-> gaps]

hasDisposition(fields, d) == \E i \in DOMAIN fields : fields[i].disposition = d

EvaluatePlan(input) ==
    LET fields == rankFields([i \in DOMAIN input.fields |->
                    evaluateField(input.tier, input.policyRate, input.fields[i])])
        batch == IF input.quantity = None THEN None ELSE dryTons(input.quantity)
        left == Remaining(fields, batch)[Len(fields)]
        taken == allocate(fields, batch)
    IN  IF input.tier = "PROHIBITED"
        THEN Plan("LAND_APPLICATION_BLOCKED", <<>>, <<>>, batch, batch,
                  {"LAND_APPLICATION_PROHIBITED"})
        ELSE IF batch = None
        THEN Plan("REVIEW_REQUIRED", fields, <<>>, None, None, {"BATCH_QUANTITY_MISSING"})
        ELSE IF left = 0
        THEN Plan("READY", fields, taken, batch, 0, {})
        ELSE IF hasDisposition(fields, "REVIEW_REQUIRED")
        THEN Plan("REVIEW_REQUIRED", fields, taken, batch, left, {"FIELD_REVIEW_REQUIRED"})
        ELSE Plan("INSUFFICIENT_CAPACITY", fields, taken, batch, left,
                  {"INSUFFICIENT_ELIGIBLE_CAPACITY"})
=============================================================================
