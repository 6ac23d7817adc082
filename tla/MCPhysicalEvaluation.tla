------------------------ MODULE MCPhysicalEvaluation ------------------------
(* One field with a boundary of two samples, one of one sample and one that *)
(* is too thin for any; two facts, the first critical.                      *)
EXTENDS PhysicalEvaluation, TLC

CONSTANTS wide, small, thin

MCSamplesOf == wide :> 2 @@ small :> 1 @@ thin :> 0
=============================================================================
