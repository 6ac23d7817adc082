--------------------------- MODULE MCCoordination ---------------------------
EXTENDS Coordination, TLC

CONSTANTS farmer, neighbour, contractor, plant

MCRoleOf == farmer :> "FARMER" @@ neighbour :> "FARMER"
            @@ contractor :> "CONTRACTOR" @@ plant :> "PLANT"

MCSymmetry == Permutations(Requests)
=============================================================================
