--------------------------- MODULE MCFieldRecord ---------------------------
(* A field whose address resolves to parcel p1 or offers two choices: one  *)
(* resolves to p2 or to nothing, the other to p1, in Michigan or outside.  *)
EXTENDS FieldRecord, TLC

CONSTANTS address, west, east, p1, p2, q1, q2

MCLocator == address
MCInputs == {address, west, east}
MCBoundaries == {p1, p2}
MCRequests == {q1, q2}
MCFacts == {"RMP_APPROVAL_MISSING"}

At(d, m, p, c) == [disposition |-> d, michigan |-> m, parcel |-> p, choices |-> c]

MCAnswers ==
    (address :> {At("clarify", FALSE, None, {west, east}),
                 At("resolved", TRUE, p1, {})})
 @@ (west :> {At("resolved", TRUE, p2, {}), At("no_match", FALSE, None, {})})
 @@ (east :> {At("resolved", FALSE, p1, {}), At("resolved", TRUE, p1, {})})
=============================================================================
